---- MODULE Spec2Model ----
(***************************************************************************)
(* Verification model of the medical RAG backend (backend/app).            *)
(*                                                                         *)
(* Part 1  memory store backends (external/redis_client.py,                *)
(*         external/duckdb_client.py) and the memory service               *)
(*         (services/memory_service.py).  The two backends are driven in   *)
(*         lockstep by the same calls so that their answers can be         *)
(*         compared.                                                       *)
(* Part 2  BM25 index lifecycle (services/bm25_search.py).                 *)
(* Part 3  statements of the DuckDB client and its asyncio lock            *)
(*         (external/duckdb_client.py).                                    *)
(* Part 4  search orchestration (services/rag_engine.py,                   *)
(*         services/milvus_service.py, services/splade_service.py,         *)
(*         external/cohere_client.py).                                     *)
(* Part 5  POST /chat (api/v1/chat.py) around RAGEngine.search_and_generate *)
(*         and the memory service, one request at a time.                  *)
(* Part 6  score fusion of dense and sparse candidates                     *)
(*         (HybridSearchService.search, MilvusService.hybrid_search).      *)
(* Part 7  dense search in pgvector (services/vector_db.py).               *)
(* Part 8  the BM25 tokenizer (KoreanTokenizer.tokenize).                  *)
(* Part 9  catalog synchronisation (DataSyncService.sync_drugs).           *)
(* Part 10 a DuckDB list read while ltrim re-indexes the same key.         *)
(* Part 11 interaction warnings of the graph enrichment.                   *)
(* Part 12 document chunking (DocumentService.chunk_document).             *)
(***************************************************************************)
EXTENDS Integers, Sequences, FiniteSets, TLC

\* ------------------------------------------------------------------ bounds
\* MemoryService(max_history=...): ring size of a session history.
max_history == 2
\* MemoryService(history_ttl=...), in clock ticks.
history_ttl == 3
\* MemoryService(cache_ttl=...), in clock ticks.
cache_ttl == 2
\* Appends per session explored.
MaxAppends == 4
\* Clock ticks explored.
MaxTime == 4
\* Cache hits per entry explored (hit_count grows without bound in the code).
MaxHits == 3
\* Longest list built by the raw list calls.
MaxLen == 2
\* POST /chat requests explored.
MaxChats == 2

\* Characters in a text handed to the tokenizer.
MaxText == 3

\* Characters in a document handed to chunk_document.
MaxDoc == 4
\* Largest chunk_size and overlap explored.
MaxChunk == 3
\* Iterations of the chunking loop explored.
MaxIter == 5

Sessions == {"s1", "s2"}
Queries == {"q1", "q2"}

\* MemoryService.HISTORY_PREFIX / CACHE_PREFIX + id
HistoryKey(s) == <<"history:", s>>
CacheKey(h) == <<"cache:query:", h>>
Keys == {HistoryKey(s) : s \in Sessions} \cup {CacheKey(h) : h \in Queries}

\* A stored string value: JSON of a CachedResponse (t = "json"), a decimal
\* integer (t = "int"), or nothing (Python None).
NoVal == [t |-> "none", response |-> "", n |-> 0]
JsonVal(resp, hits) == [t |-> "json", response |-> resp, n |-> hits]
IntVal(i) == [t |-> "int", response |-> "", n |-> i]

\* What a client call hands back: a list, a value, an integer/boolean code.
Res(l, v, i) == [list |-> l, val |-> v, int |-> i]
NoRes == Res(<<>>, NoVal, 0)

VARIABLES
    now,        \* time.time(), in ticks
    redis,      \* the Redis server's keyspace
    duck,       \* the DuckDB file: kv_store and list_store
    nappend,    \* per session: add_to_history calls completed
    appended_at,\* per session: time of the latest add_to_history
    lastOp,     \* the call that ran last
    rres,       \* what it returned on the Redis backend
    dres        \* what it returned on the DuckDB backend

memVars == <<now, redis, duck, nappend, appended_at, lastOp, rres, dres>>

VARIABLES
    db,             \* drugs table: the rows the corpus query returns now
    cache,          \* _bm25_cache
    init_lock,      \* holder of BM25IndexCache._init_lock (0: free)
    tpc,            \* per task: "idle", "executing" (query sent), "fetched"
    kind,           \* per task: the call in progress
    corpus_rows,    \* per task: the rows its corpus query returned
    last_read,      \* rows of the corpus query the store executed last
    publishes,      \* set_data calls since the cache was last empty
    refreshing,     \* per task: its refresh in progress (pre-state, searches served)
    refresh_done    \* the refresh_index call started last has completed

bm25Vars == <<db, cache, init_lock, tpc, kind, corpus_rows, last_read, publishes,
              refreshing, refresh_done>>

VARIABLES
    lock,           \* holder of DuckDBClient._lock (0: free)
    call,           \* per task: the client method it is in
    step,           \* per task: statements of the method completed
    running         \* per task: its statement is executing in the thread pool

lockVars == <<lock, call, step, running>>

VARIABLES
    spc,            \* where RAGEngine.search() is
    scfg,           \* settings and health of the collaborators for this call
    top_k,          \* the caller's top_k
    dense_hits,     \* what the dense index holds for the query, best first
    sparse_hits,    \* what the sparse index holds for the query, best first
    query_embedding,\* the dense query vector is known
    sparse_vector,  \* the sparse query vector (its token ids)
    splade,         \* SPLADEService: _initialized, _load_failed
    search_path,    \* the retrieval paths taken, in order
    results         \* candidates, then the returned results

searchVars == <<spc, scfg, top_k, dense_hits, sparse_hits, query_embedding,
                sparse_vector, splade, search_path, results>>

VARIABLES
    rerank_args,    \* the last CohereReranker.rerank call: its arguments and the API's fate
    rerank_ret      \* what that call returned

rerankVars == <<rerank_args, rerank_ret>>

VARIABLES
    chat_req,       \* the last POST /chat: its request and the health of the collaborators
    chat_resp,      \* per backend: the HTTP response to it
    rag_resp,       \* the last RAGResponse of search_and_generate called on its own
    nchat           \* POST /chat requests served

chatVars == <<chat_req, chat_resp, rag_resp, nchat>>

VARIABLES
    fusion_args,    \* the last fusion call: dense and sparse candidates, top_k
    fusion_ret      \* what HybridSearchService.search and hybrid_search made of them

fusionVars == <<fusion_args, fusion_ret>>

VARIABLES
    drug_vectors,   \* per drug: cosine distance of its stored vector to the query (-1: no vector)
    similar_ret     \* the rows VectorDBService.search_similar returned last

denseVars == <<drug_vectors, similar_ret>>

VARIABLES
    tokenize_args,  \* the last call of KoreanTokenizer.tokenize
    tokenize_ret    \* and the token list it returned

tokenizerVars == <<tokenize_args, tokenize_ret>>

VARIABLES
    sag_args,  \* the last call of RAGEngine.search_and_generate
    sag_ret   \* and the RAGResponse it returned (or that it raised)

generateVars == <<sag_args, sag_ret>>

VARIABLES
    drug_rows,  \* ids of the committed Drug rows
    vector_rows,  \* drug ids of the committed DrugVector rows
    sync_args,  \* the last call of DataSyncService.sync_drugs, with the rows it found
    sync_ret   \* its stats, or that it raised

syncVars == <<drug_rows, vector_rows, sync_args, sync_ret>>

VARIABLES
    list_rows,  \* the list_store rows of one key, ordered by idx
    trim,  \* the ltrim in progress: its position and the rows _reindex_list read
    list_read   \* the last lrange or llen: its arguments and what it returned

trimVars == <<list_rows, trim, list_read>>

VARIABLES
    interacts,  \* the INTERACTS_WITH edges of the graph store, as unordered pairs of drug ids
    graph_args,  \* the drug ids of the last _get_graph_enhancement call, in result order
    graph_ret   \* the InteractionWarnings it produced

graphVars == <<interacts, graph_args, graph_ret>>

VARIABLES
    chunk_args,  \* the chunk_document call in progress: content, chunk_size, overlap
    chunk_pc,  \* idle, loop (inside the while loop) or returned
    chunk_start,  \* the loop's start offset
    chunk_prev,  \* the start offset of the previous iteration
    chunk_iter,  \* loop iterations run
    chunks   \* the chunks appended so far

chunkVars == <<chunk_args, chunk_pc, chunk_start, chunk_prev, chunk_iter, chunks>>

\* What each part leaves alone.
exceptMem ==
    <<bm25Vars, lockVars, searchVars, rerankVars, chatVars, fusionVars, denseVars,
      tokenizerVars, generateVars, syncVars, trimVars, graphVars, chunkVars>>
exceptBm25 ==
    <<memVars, lockVars, searchVars, rerankVars, chatVars, fusionVars, denseVars,
      tokenizerVars, generateVars, syncVars, trimVars, graphVars, chunkVars>>
exceptLock ==
    <<memVars, bm25Vars, searchVars, rerankVars, chatVars, fusionVars, denseVars,
      tokenizerVars, generateVars, syncVars, trimVars, graphVars, chunkVars>>
exceptSearch ==
    <<memVars, bm25Vars, lockVars, rerankVars, chatVars, fusionVars, denseVars,
      tokenizerVars, generateVars, syncVars, trimVars, graphVars, chunkVars>>
exceptRerank ==
    <<memVars, bm25Vars, lockVars, searchVars, chatVars, fusionVars, denseVars,
      tokenizerVars, generateVars, syncVars, trimVars, graphVars, chunkVars>>
exceptChat ==
    <<bm25Vars, lockVars, searchVars, rerankVars, fusionVars, denseVars,
      tokenizerVars, generateVars, syncVars, trimVars, graphVars, chunkVars>>
exceptFusion ==
    <<memVars, bm25Vars, lockVars, searchVars, rerankVars, chatVars, denseVars,
      tokenizerVars, generateVars, syncVars, trimVars, graphVars, chunkVars>>
exceptDense ==
    <<memVars, bm25Vars, lockVars, searchVars, rerankVars, chatVars, fusionVars,
      tokenizerVars, generateVars, syncVars, trimVars, graphVars, chunkVars>>
exceptTokenizer ==
    <<memVars, bm25Vars, lockVars, searchVars, rerankVars, chatVars, fusionVars,
      denseVars, generateVars, syncVars, trimVars, graphVars, chunkVars>>
exceptGenerate ==
    <<memVars, bm25Vars, lockVars, searchVars, rerankVars, chatVars, fusionVars,
      denseVars, tokenizerVars, syncVars, trimVars, graphVars, chunkVars>>
exceptSync ==
    <<memVars, bm25Vars, lockVars, searchVars, rerankVars, chatVars, fusionVars,
      denseVars, tokenizerVars, generateVars, trimVars, graphVars, chunkVars>>
exceptTrim ==
    <<memVars, bm25Vars, lockVars, searchVars, rerankVars, chatVars, fusionVars,
      denseVars, tokenizerVars, generateVars, syncVars, graphVars, chunkVars>>
exceptGraph ==
    <<memVars, bm25Vars, lockVars, searchVars, rerankVars, chatVars, fusionVars,
      denseVars, tokenizerVars, generateVars, syncVars, trimVars, chunkVars>>
exceptChunk ==
    <<memVars, bm25Vars, lockVars, searchVars, rerankVars, chatVars, fusionVars,
      denseVars, tokenizerVars, generateVars, syncVars, trimVars, graphVars>>
(***************************************************************************)
(* Part 1  memory store backends and memory service                        *)
(***************************************************************************)
\* ============================================================ Redis server
\* Keys hold a string or a list; a key with a TTL disappears when it runs out.
RedisEmpty ==
    [str |-> [k \in Keys |-> NoVal],
     list |-> [k \in Keys |-> <<>>],
     has_exp |-> [k \in Keys |-> FALSE],
     exp |-> [k \in Keys |-> 0]]

RedisDrop(r, k) ==
    [r EXCEPT !.str[k] = NoVal, !.list[k] = <<>>, !.has_exp[k] = FALSE, !.exp[k] = 0]

RedisKeyExists(r, k) == r.str[k] # NoVal \/ r.list[k] # <<>>

\* Keys whose TTL has run out at time t are gone.
RedisPurge(r, t) ==
    [str |-> [k \in Keys |-> IF r.has_exp[k] /\ r.exp[k] <= t THEN NoVal ELSE r.str[k]],
     list |-> [k \in Keys |-> IF r.has_exp[k] /\ r.exp[k] <= t THEN <<>> ELSE r.list[k]],
     has_exp |-> [k \in Keys |-> r.has_exp[k] /\ r.exp[k] > t],
     exp |-> [k \in Keys |-> IF r.has_exp[k] /\ r.exp[k] > t THEN r.exp[k] ELSE 0]]

RedisGet(r, k) == r.str[k]

\* SETEX when ttl is truthy, SET otherwise; both replace value and expiry.
RedisSet(r, k, v, ttl, t) ==
    [r EXCEPT !.str[k] = v, !.list[k] = <<>>,
              !.has_exp[k] = (ttl > 0), !.exp[k] = IF ttl > 0 THEN t + ttl ELSE 0]

RedisDelete(r, k) == RedisDrop(r, k)

RedisExists(r, k) == RedisKeyExists(r, k)

\* RPUSH / LPUSH on a string key is a WRONGTYPE error: nothing changes.
RedisRPush(r, k, v) ==
    IF r.str[k] # NoVal THEN r ELSE [r EXCEPT !.list[k] = Append(@, v)]

RedisLPush(r, k, v) ==
    IF r.str[k] # NoVal THEN r ELSE [r EXCEPT !.list[k] = <<v>> \o @]

RedisPushOk(r, k) == r.str[k] = NoVal

\* Redis index arithmetic: negative indexes count from the tail.
RedisStart(len, s) ==
    LET s1 == IF s < 0 THEN len + s ELSE s IN IF s1 < 0 THEN 0 ELSE s1

RedisEnd(len, e) == IF e < 0 THEN len + e ELSE e

RedisSlice(l, s, e) ==
    LET len == Len(l)
        s1 == RedisStart(len, s)
        e1 == RedisEnd(len, e)
        e2 == IF e1 >= len THEN len - 1 ELSE e1
    IN  IF s1 > e1 \/ s1 >= len THEN <<>> ELSE SubSeq(l, s1 + 1, e2 + 1)

RedisLRange(r, k, s, e) == RedisSlice(r.list[k], s, e)

RedisLLen(r, k) == Len(r.list[k])

\* LTRIM keeps the inclusive range; an emptied list key is removed.
RedisLTrim(r, k, s, e) ==
    LET kept == RedisSlice(r.list[k], s, e)
    IN  IF r.list[k] = <<>> THEN r
        ELSE IF kept = <<>> THEN RedisDrop(r, k)
        ELSE [r EXCEPT !.list[k] = kept]

\* EXPIRE applies to any existing key, string or list.
RedisExpire(r, k, seconds, t) ==
    IF RedisKeyExists(r, k)
    THEN [r EXCEPT !.has_exp[k] = TRUE, !.exp[k] = t + seconds]
    ELSE r

RedisTtl(r, k, t) ==
    IF ~RedisKeyExists(r, k) THEN -2
    ELSE IF ~r.has_exp[k] THEN -1
    ELSE r.exp[k] - t

\* INCR: a missing key counts from 0, an integer string is incremented and
\* keeps its TTL, anything else is an error (the client returns 0).
RedisIncrOk(r, k) ==
    r.list[k] = <<>> /\ r.str[k].t \in {"none", "int"}

RedisIncr(r, k) ==
    IF ~RedisIncrOk(r, k) THEN r
    ELSE [r EXCEPT !.str[k] = IntVal(r.str[k].n + 1)]

RedisIncrResult(r, k) == IF RedisIncrOk(r, k) THEN r.str[k].n + 1 ELSE 0

\* ============================================================ DuckDB client
\* kv_store(key, value, expires_at): one row per key or none.
\* list_store(key, idx, value): per key the rows ordered by idx.
NoRow == [present |-> FALSE, value |-> NoVal, has_exp |-> FALSE, expires_at |-> 0]
KvRow(v, hasExp, exp) == [present |-> TRUE, value |-> v, has_exp |-> hasExp, expires_at |-> exp]

DuckEmpty ==
    [kv_store |-> [k \in Keys |-> NoRow],
     list_store |-> [k \in Keys |-> <<>>]]

\* DELETE FROM kv_store WHERE expires_at IS NOT NULL AND expires_at < ?
DuckCleanupExpired(d, t) ==
    [d EXCEPT !.kv_store =
        [k \in Keys |-> IF d.kv_store[k].present /\ d.kv_store[k].has_exp
                           /\ d.kv_store[k].expires_at < t
                        THEN NoRow ELSE d.kv_store[k]]]

\* Mutant of DuckSelectValue: the SELECT leaves the expiry test to the sweep.
DuckSelectValueNoExpiryTest(d, k, t) ==
    IF d.kv_store[k].present THEN d.kv_store[k].value ELSE NoVal

\* SELECT value FROM kv_store WHERE key = ? AND (expires_at IS NULL OR expires_at > ?)
DuckSelectValue(d, k, t) ==
    LET row == d.kv_store[k]
    IN  IF row.present /\ (~row.has_exp \/ row.expires_at > t) THEN row.value ELSE NoVal

\* get: sweep, then select.
DuckGetStore(d, k, t) == DuckCleanupExpired(d, t)

DuckGet(d, k, t) == DuckSelectValue(DuckCleanupExpired(d, t), k, t)

\* set: expires_at = time.time() + ttl if ttl else None; INSERT OR REPLACE.
DuckSet(d, k, v, ttl, t) ==
    [d EXCEPT !.kv_store[k] = KvRow(v, ttl > 0, IF ttl > 0 THEN t + ttl ELSE 0)]

DuckDelete(d, k) ==
    [d EXCEPT !.kv_store[k] = NoRow, !.list_store[k] = <<>>]

DuckExists(d, k, t) ==
    LET row == d.kv_store[k]
    IN  (row.present /\ (~row.has_exp \/ row.expires_at > t)) \/ d.list_store[k] # <<>>

ListRow(i, v) == [idx |-> i, value |-> v]

\* SELECT COALESCE(MAX(idx), -1): rows are kept ordered by idx.
DuckMaxIdx(rows) == IF rows = <<>> THEN -1 ELSE rows[Len(rows)].idx

DuckRPush(d, k, v) ==
    [d EXCEPT !.list_store[k] = Append(@, ListRow(DuckMaxIdx(@) + 1, v))]

\* UPDATE idx = idx + 1, then INSERT at idx 0.
DuckLPush(d, k, v) ==
    [d EXCEPT !.list_store[k] =
        <<ListRow(0, v)>> \o [i \in 1..Len(@) |-> ListRow(@[i].idx + 1, @[i].value)]]

RECURSIVE RowValues(_)
RowValues(rows) ==
    IF rows = <<>> THEN <<>> ELSE <<rows[1].value>> \o RowValues(Tail(rows))

DuckRowInRange(row, s, e) ==
    IF e = -1 THEN row.idx >= s ELSE row.idx >= s /\ row.idx <= e

\* lrange: end == -1 selects idx >= start, otherwise start <= idx <= end.
DuckLRange(d, k, s, e) ==
    RowValues(SelectSeq(d.list_store[k], LAMBDA row : DuckRowInRange(row, s, e)))

DuckLLen(d, k) == Len(d.list_store[k])

\* _reindex_list: read the values ordered by idx, delete, re-insert at 0..n-1.
DuckReindex(rows) == [i \in 1..Len(rows) |-> ListRow(i - 1, rows[i].value)]

\* ltrim: delete the rows outside the range (same comparison as lrange),
\* then re-index.
DuckLTrim(d, k, s, e) ==
    [d EXCEPT !.list_store[k] =
        DuckReindex(SelectSeq(@, LAMBDA row : DuckRowInRange(row, s, e)))]

\* expire: UPDATE kv_store SET expires_at = ? WHERE key = ?
DuckExpire(d, k, seconds, t) ==
    IF d.kv_store[k].present
    THEN [d EXCEPT !.kv_store[k].has_exp = TRUE, !.kv_store[k].expires_at = t + seconds]
    ELSE d

\* ttl: SELECT expires_at FROM kv_store WHERE key = ?
DuckTtl(d, k, t) ==
    LET row == d.kv_store[k]
    IN  IF ~row.present THEN -2
        ELSE IF ~row.has_exp THEN -1
        ELSE IF row.expires_at - t < 0 THEN 0 ELSE row.expires_at - t

\* incr: current = get(key); int(current) + 1; INSERT OR REPLACE keeping the
\* old row's expires_at.  int() of a JSON string raises: the client returns 0.
DuckIncrOk(d, k, t) == DuckGet(d, k, t).t \in {"none", "int"}

DuckIncrResult(d, k, t) == IF DuckIncrOk(d, k, t) THEN DuckGet(d, k, t).n + 1 ELSE 0

DuckIncr(d, k, t) ==
    LET d1 == DuckCleanupExpired(d, t)
        old == d1.kv_store[k]
    IN  IF ~DuckIncrOk(d, k, t) THEN d1
        ELSE [d1 EXCEPT !.kv_store[k] =
                 KvRow(IntVal(DuckIncrResult(d, k, t)), old.present /\ old.has_exp,
                       IF old.present /\ old.has_exp THEN old.expires_at ELSE 0)]

\* ====================================================== BaseMemoryClient
\* The calls of the common interface, dispatched on the backend in use.
Backends == {"redis", "duckdb"}

ClientGet(b, st, k, t) == IF b = "redis" THEN RedisGet(st, k) ELSE DuckGet(st, k, t)

ClientGetStore(b, st, k, t) == IF b = "redis" THEN st ELSE DuckGetStore(st, k, t)

ClientSet(b, st, k, v, ttl, t) ==
    IF b = "redis" THEN RedisSet(st, k, v, ttl, t) ELSE DuckSet(st, k, v, ttl, t)

ClientDelete(b, st, k) == IF b = "redis" THEN RedisDelete(st, k) ELSE DuckDelete(st, k)

ClientExists(b, st, k, t) == IF b = "redis" THEN RedisExists(st, k) ELSE DuckExists(st, k, t)

ClientRPush(b, st, k, v) == IF b = "redis" THEN RedisRPush(st, k, v) ELSE DuckRPush(st, k, v)

ClientRPushOk(b, st, k) == IF b = "redis" THEN RedisPushOk(st, k) ELSE TRUE

ClientLRange(b, st, k, s, e) ==
    IF b = "redis" THEN RedisLRange(st, k, s, e) ELSE DuckLRange(st, k, s, e)

ClientLLen(b, st, k) == IF b = "redis" THEN RedisLLen(st, k) ELSE DuckLLen(st, k)

ClientLTrim(b, st, k, s, e) ==
    IF b = "redis" THEN RedisLTrim(st, k, s, e) ELSE DuckLTrim(st, k, s, e)

ClientExpire(b, st, k, seconds, t) ==
    IF b = "redis" THEN RedisExpire(st, k, seconds, t) ELSE DuckExpire(st, k, seconds, t)

ClientTtl(b, st, k, t) == IF b = "redis" THEN RedisTtl(st, k, t) ELSE DuckTtl(st, k, t)

\* ========================================================== MemoryService
\* get_cached_response: get_json; on a hit bump hit_count and store the entry
\* again with a fresh cache_ttl.
GetCachedResponseResult(b, st, h, t) == ClientGet(b, st, CacheKey(h), t)

GetCachedResponseStore(b, st, h, t) ==
    LET cached == ClientGet(b, st, CacheKey(h), t)
        st1 == ClientGetStore(b, st, CacheKey(h), t)
    IN  IF cached # NoVal
        THEN ClientSet(b, st1, CacheKey(h), JsonVal(cached.response, cached.n + 1), cache_ttl, t)
        ELSE st1

\* A cache_response that stores nothing.
CacheResponseDropped(b, st, h, resp, t) == st

\* cache_response: set_json({..., hit_count: 1}, cache_ttl)
CacheResponseStore(b, st, h, resp, t) ==
    ClientSet(b, st, CacheKey(h), JsonVal(resp, 1), cache_ttl, t)

\* add_to_history: rpush; llen; ltrim(-max_history, -1) when over; expire.
AddToHistoryStore(b, st, s, turn, t) ==
    LET k == HistoryKey(s)
        st1 == ClientRPush(b, st, k, turn)
        length == ClientLLen(b, st1, k)
        st2 == IF length > max_history
               THEN ClientLTrim(b, st1, k, 0 - max_history, -1)
               ELSE st1
    IN  IF ~ClientRPushOk(b, st, k) THEN st
        ELSE ClientExpire(b, st2, k, history_ttl, t)

\* get_history: lrange(-limit, -1) when a limit is given, lrange(0, -1) otherwise.
GetHistory(b, st, s, limit) ==
    IF limit > 0
    THEN ClientLRange(b, st, HistoryKey(s), 0 - limit, -1)
    ELSE ClientLRange(b, st, HistoryKey(s), 0, -1)

\* clear_history: delete(history key)
ClearHistoryStore(b, st, s) == ClientDelete(b, st, HistoryKey(s))

\* --------------------------------------------------------------- actions
NoOp == [op |-> "none", key |-> <<"", "">>, at |-> 0, unswept |-> FALSE]
Op(name, k, t, u) == [op |-> name, key |-> k, at |-> t, unswept |-> u]

MemInit ==
    /\ now = 0
    /\ redis = RedisEmpty
    /\ duck = DuckEmpty
    /\ nappend = [s \in Sessions |-> 0]
    /\ appended_at = [s \in Sessions |-> 0]
    /\ lastOp = NoOp
    /\ rres = NoRes
    /\ dres = NoRes

\* The clock advances; Redis drops the keys whose TTL ran out.
Tick ==
    /\ now < MaxTime
    /\ now' = now + 1
    /\ redis' = RedisPurge(redis, now + 1)
    /\ UNCHANGED <<duck, nappend, appended_at, lastOp, rres, dres>>
    /\ UNCHANGED exceptMem

\* The turn appended is numbered by the session's append count.
AddToHistory(s) ==
    /\ nappend[s] < MaxAppends
    /\ redis' = AddToHistoryStore("redis", redis, s, nappend[s] + 1, now)
    /\ duck' = AddToHistoryStore("duckdb", duck, s, nappend[s] + 1, now)
    /\ nappend' = [nappend EXCEPT ![s] = @ + 1]
    /\ appended_at' = [appended_at EXCEPT ![s] = now]
    /\ lastOp' = Op("add_to_history", HistoryKey(s), now, FALSE)
    /\ rres' = Res(<<>>, NoVal, 1)
    /\ dres' = Res(<<>>, NoVal, 1)
    /\ UNCHANGED now
    /\ UNCHANGED exceptMem

ReadHistory(s, limit) ==
    /\ rres' = Res(GetHistory("redis", redis, s, limit), NoVal, 0)
    /\ dres' = Res(GetHistory("duckdb", duck, s, limit), NoVal, 0)
    /\ lastOp' = Op("get_history", HistoryKey(s), now, FALSE)
    /\ UNCHANGED <<now, redis, duck, nappend, appended_at>>
    /\ UNCHANGED exceptMem

ClearHistory(s) ==
    /\ redis' = ClearHistoryStore("redis", redis, s)
    /\ duck' = ClearHistoryStore("duckdb", duck, s)
    /\ nappend' = [nappend EXCEPT ![s] = 0]
    /\ appended_at' = [appended_at EXCEPT ![s] = 0]
    /\ lastOp' = Op("clear_history", HistoryKey(s), now, FALSE)
    /\ rres' = Res(<<>>, NoVal, 1)
    /\ dres' = Res(<<>>, NoVal, 1)
    /\ UNCHANGED now
    /\ UNCHANGED exceptMem

CacheResponse(h) ==
    /\ redis' = CacheResponseStore("redis", redis, h, "answer", now)
    /\ duck' = CacheResponseStore("duckdb", duck, h, "answer", now)
    /\ lastOp' = Op("cache_response", CacheKey(h), now, FALSE)
    /\ rres' = Res(<<>>, NoVal, 1)
    /\ dres' = Res(<<>>, NoVal, 1)
    /\ UNCHANGED <<now, nappend, appended_at>>
    /\ UNCHANGED exceptMem

\* served_exp: the expiry of the row the hit was read from (0 when none).
GetCachedResponse(h) ==
    LET row == duck.kv_store[CacheKey(h)]
    IN  /\ redis.str[CacheKey(h)].n < MaxHits
        /\ row.value.n < MaxHits
        /\ redis' = GetCachedResponseStore("redis", redis, h, now)
        /\ duck' = GetCachedResponseStore("duckdb", duck, h, now)
        /\ rres' = Res(<<>>, GetCachedResponseResult("redis", redis, h, now),
                       IF redis.has_exp[CacheKey(h)] THEN redis.exp[CacheKey(h)] ELSE 0)
        /\ dres' = Res(<<>>, GetCachedResponseResult("duckdb", duck, h, now),
                       IF row.present /\ row.has_exp THEN row.expires_at ELSE 0)
        /\ lastOp' = Op("get_cached_response", CacheKey(h), now,
                        row.present /\ row.has_exp /\ row.expires_at <= now)
        /\ UNCHANGED <<now, nappend, appended_at>>
        /\ UNCHANGED exceptMem

\* ------------------------------------------------ raw client calls (lockstep)
RawKvKey == CacheKey("q1")
RawListKey == HistoryKey("s1")
RawKeys == {RawKvKey, RawListKey}
RawValues == {JsonVal("answer", 1)}
RawItems == 1..2
RawStarts == {0 - max_history, 0, 1}
RawEnds == {-1, 1}

RawDone(r, d, rr, dr) ==
    /\ redis' = r
    /\ duck' = d
    /\ rres' = rr
    /\ dres' = dr
    /\ UNCHANGED <<now, nappend, appended_at>>
    /\ UNCHANGED exceptMem

RawGet ==
    /\ lastOp' = Op("get", RawKvKey, 0, FALSE)
    /\ RawDone(redis, DuckGetStore(duck, RawKvKey, now),
            Res(<<>>, RedisGet(redis, RawKvKey), 0),
            Res(<<>>, DuckGet(duck, RawKvKey, now), 0))

RawSet(v, ttl) ==
    /\ lastOp' = Op("set", RawKvKey, 0, FALSE)
    /\ RawDone(RedisSet(redis, RawKvKey, v, ttl, now),
            DuckSet(duck, RawKvKey, v, ttl, now),
            Res(<<>>, NoVal, 1), Res(<<>>, NoVal, 1))

RawDelete(k) ==
    /\ lastOp' = Op("delete", k, 0, FALSE)
    /\ RawDone(RedisDelete(redis, k), DuckDelete(duck, k),
            Res(<<>>, NoVal, 1), Res(<<>>, NoVal, 1))

RawExists(k) ==
    /\ lastOp' = Op("exists", k, 0, FALSE)
    /\ RawDone(redis, duck,
            Res(<<>>, NoVal, IF RedisExists(redis, k) THEN 1 ELSE 0),
            Res(<<>>, NoVal, IF DuckExists(duck, k, now) THEN 1 ELSE 0))

RawRPush(v) ==
    /\ Len(redis.list[RawListKey]) < MaxLen
    /\ Len(duck.list_store[RawListKey]) < MaxLen
    /\ lastOp' = Op("rpush", RawListKey, 0, FALSE)
    /\ RawDone(RedisRPush(redis, RawListKey, v),
               DuckRPush(duck, RawListKey, v),
               Res(<<>>, NoVal, 1), Res(<<>>, NoVal, 1))

\* The UPDATE of lpush moves every idx onto its neighbour's; with two or more
\* rows the primary key (key, idx) may reject it, and lpush then returns False.
RawLPush(v) ==
    /\ Len(redis.list[RawListKey]) < MaxLen
    /\ Len(duck.list_store[RawListKey]) < MaxLen
    /\ \E rejected \in (IF Len(duck.list_store[RawListKey]) >= 2 THEN BOOLEAN ELSE {FALSE}) :
         /\ lastOp' = Op("lpush", RawListKey, 0, FALSE)
         /\ RawDone(RedisLPush(redis, RawListKey, v),
                 IF rejected THEN duck ELSE DuckLPush(duck, RawListKey, v),
                 Res(<<>>, NoVal, 1), Res(<<>>, NoVal, IF rejected THEN 0 ELSE 1))

RawLRange(s, e) ==
    /\ lastOp' = Op("lrange", RawListKey, 0, FALSE)
    /\ RawDone(redis, duck,
            Res(RedisLRange(redis, RawListKey, s, e), NoVal, 0),
            Res(DuckLRange(duck, RawListKey, s, e), NoVal, 0))

RawLLen ==
    /\ lastOp' = Op("llen", RawListKey, 0, FALSE)
    /\ RawDone(redis, duck,
            Res(<<>>, NoVal, RedisLLen(redis, RawListKey)),
            Res(<<>>, NoVal, DuckLLen(duck, RawListKey)))

RawLTrim(s, e) ==
    /\ lastOp' = Op("ltrim", RawListKey, 0, FALSE)
    /\ RawDone(RedisLTrim(redis, RawListKey, s, e),
            DuckLTrim(duck, RawListKey, s, e),
            Res(<<>>, NoVal, 1), Res(<<>>, NoVal, 1))

RawExpire(k) ==
    /\ lastOp' = Op("expire", k, 0, FALSE)
    /\ RawDone(RedisExpire(redis, k, history_ttl, now),
            DuckExpire(duck, k, history_ttl, now),
            Res(<<>>, NoVal, 1), Res(<<>>, NoVal, 1))

RawTtl(k) ==
    /\ lastOp' = Op("ttl", k, 0, FALSE)
    /\ RawDone(redis, duck,
            Res(<<>>, NoVal, RedisTtl(redis, k, now)),
            Res(<<>>, NoVal, DuckTtl(duck, k, now)))

RawIncr ==
    /\ redis.str[RawKvKey].n < MaxHits
    /\ duck.kv_store[RawKvKey].value.n < MaxHits
    /\ lastOp' = Op("incr", RawKvKey, 0, FALSE)
    /\ RawDone(RedisIncr(redis, RawKvKey), DuckIncr(duck, RawKvKey, now),
               Res(<<>>, NoVal, RedisIncrResult(redis, RawKvKey)),
               Res(<<>>, NoVal, DuckIncrResult(duck, RawKvKey, now)))

(***************************************************************************)
(* Part 2  BM25 index lifecycle (services/bm25_search.py): the process-    *)
(*         wide BM25IndexCache and the coroutines that initialize, search  *)
(*         and refresh it.  A coroutine runs until its next await; the     *)
(*         only await of initialize() is the corpus query.                 *)
(***************************************************************************)
\* Concurrent callers explored.
NTasks == 2
Tasks == 1..NTasks

\* Rows of drugs with efficacy IS NOT NULL that the store may hold; the text
\* of "blank" yields no token, so initialize() skips it.
Drugs == {"d1", "d2", "blank"}
Tokenless == {"blank"}
\* Contents of the table explored.
Tables == {{}, {"d1"}, {"d1", "d2", "blank"}}

\* The rows initialize() keeps: those whose document text has tokens.
Indexed(rs) == rs \ Tokenless

\* BM25IndexCache.__new__: bm25 = None, documents = [], corpus = []
NoBm25 == [built |-> FALSE, corpus |-> {}]
Bm25Okapi(corpus) == [built |-> TRUE, corpus |-> corpus]
CacheCleared == [bm25 |-> NoBm25, documents |-> {}, corpus |-> {}, initialized |-> FALSE]

\* A set_data that is interrupted after its first assignment.
SetDataTorn(bm25, documents, corpus) ==
    [bm25 |-> bm25, documents |-> {}, corpus |-> {}, initialized |-> FALSE]

\* BM25IndexCache.set_data
SetData(bm25, documents, corpus) ==
    [bm25 |-> bm25, documents |-> documents, corpus |-> corpus, initialized |-> TRUE]

\* BM25IndexCache.is_initialized
IsInitialized(c) == c.initialized /\ c.bm25.built

\* What initialize() leaves in the cache once the rows are in: set_data when
\* the corpus is not empty, nothing otherwise.
Publish(c, rs) ==
    IF Indexed(rs) # {}
    THEN SetData(Bm25Okapi(Indexed(rs)), Indexed(rs), Indexed(rs))
    ELSE c

\* The snapshot a search scores against (empty when there is no index).
Snapshot(c) ==
    IF c.bm25.built /\ c.documents # {}
    THEN [model |-> c.bm25.corpus, documents |-> c.documents, corpus |-> c.corpus]
    ELSE [model |-> {}, documents |-> {}, corpus |-> {}]

\* No refresh in progress.
NoRefresh == [valid |-> FALSE, pre |-> Snapshot(CacheCleared), during |-> {}]

Bm25Init ==
    /\ db \in {{"d1"}}
    /\ cache = CacheCleared
    /\ init_lock = 0
    /\ tpc = [t \in Tasks |-> "idle"]
    /\ kind = [t \in Tasks |-> "none"]
    /\ corpus_rows = [t \in Tasks |-> {}]
    /\ last_read = {}
    /\ publishes = 0
    /\ refreshing = [t \in Tasks |-> NoRefresh]
    /\ refresh_done = FALSE

\* A search was answered from snapshot s: every refresh in progress notes it.
NoteServed(s) ==
    [t \in Tasks |-> IF refreshing[t].valid
                     THEN [refreshing[t] EXCEPT !.during = @ \cup {s}]
                     ELSE refreshing[t]]

\* Rows are written to or removed from the drugs table (data sync).
DbWrite(S) ==
    /\ S # db
    /\ db' = S
    /\ UNCHANGED <<cache, init_lock, tpc, kind, corpus_rows, last_read, publishes,
                   refreshing, refresh_done>>
    /\ UNCHANGED exceptBm25

\* initialize() on a warm cache returns at once.
InitializeWarm(t) ==
    /\ tpc[t] = "idle"
    /\ IsInitialized(cache)
    /\ kind' = [kind EXCEPT ![t] = "none"]
    /\ UNCHANGED <<db, cache, init_lock, tpc, corpus_rows, last_read, publishes,
                   refreshing, refresh_done>>
    /\ UNCHANGED exceptBm25

\* initialize() on a cold cache sends the corpus query and awaits it.
InitializeStart(t) ==
    /\ tpc[t] = "idle"
    /\ ~IsInitialized(cache)
    /\ tpc' = [tpc EXCEPT ![t] = "executing"]
    /\ kind' = [kind EXCEPT ![t] = "initialize"]
    /\ UNCHANGED <<db, cache, init_lock, corpus_rows, last_read, publishes,
                   refreshing, refresh_done>>
    /\ UNCHANGED exceptBm25

\* search() on a warm cache scores against it without awaiting.
SearchWarm(t) ==
    /\ tpc[t] = "idle"
    /\ IsInitialized(cache)
    /\ kind' = [kind EXCEPT ![t] = "none"]
    /\ refreshing' = NoteServed(Snapshot(cache))
    /\ UNCHANGED <<db, cache, init_lock, tpc, corpus_rows, last_read, publishes, refresh_done>>
    /\ UNCHANGED exceptBm25

\* search() on a cold cache awaits initialize() first.
SearchStart(t) ==
    /\ tpc[t] = "idle"
    /\ ~IsInitialized(cache)
    /\ tpc' = [tpc EXCEPT ![t] = "executing"]
    /\ kind' = [kind EXCEPT ![t] = "search"]
    /\ UNCHANGED <<db, cache, init_lock, corpus_rows, last_read, publishes,
                   refreshing, refresh_done>>
    /\ UNCHANGED exceptBm25

\* refresh_index(): cache.clear(), then initialize() up to its await.
RefreshStart(t) ==
    /\ tpc[t] = "idle"
    /\ cache' = CacheCleared
    /\ publishes' = 0
    /\ tpc' = [tpc EXCEPT ![t] = "executing"]
    /\ kind' = [kind EXCEPT ![t] = "refresh"]
    /\ refreshing' = [refreshing EXCEPT ![t] =
           [valid |-> TRUE, pre |-> Snapshot(cache), during |-> {}]]
    /\ refresh_done' = FALSE
    /\ UNCHANGED <<db, init_lock, corpus_rows, last_read>>
    /\ UNCHANGED exceptBm25

\* The store executes the task's corpus query against the table as it is.
DbExecute(t) ==
    /\ tpc[t] = "executing"
    /\ corpus_rows' = [corpus_rows EXCEPT ![t] = db]
    /\ last_read' = db
    /\ tpc' = [tpc EXCEPT ![t] = "fetched"]
    /\ UNCHANGED <<db, cache, init_lock, kind, publishes,
                   refreshing, refresh_done>>
    /\ UNCHANGED exceptBm25

\* The corpus query raises: the call propagates the exception.
DbRaises(t) ==
    /\ tpc[t] = "executing"
    /\ tpc' = [tpc EXCEPT ![t] = "idle"]
    /\ kind' = [kind EXCEPT ![t] = "none"]
    /\ refreshing' = [refreshing EXCEPT ![t] = NoRefresh]
    /\ UNCHANGED <<db, cache, init_lock, corpus_rows, last_read, publishes, refresh_done>>
    /\ UNCHANGED exceptBm25

\* The await returns: initialize() builds the index and publishes it, and the
\* caller carries on without another await.
Resume(t) ==
    /\ tpc[t] = "fetched"
    /\ cache' = Publish(cache, corpus_rows[t])
    /\ publishes' = IF Indexed(corpus_rows[t]) # {} THEN publishes + 1 ELSE publishes
    /\ tpc' = [tpc EXCEPT ![t] = "idle"]
    /\ kind' = [kind EXCEPT ![t] = "none"]
    /\ corpus_rows' = [corpus_rows EXCEPT ![t] = {}]
    /\ refreshing' =
           IF kind[t] = "search" THEN NoteServed(Snapshot(Publish(cache, corpus_rows[t])))
           ELSE [refreshing EXCEPT ![t] = NoRefresh]
    /\ refresh_done' = (refresh_done \/ kind[t] = "refresh")
    /\ UNCHANGED <<db, init_lock, last_read>>
    /\ UNCHANGED exceptBm25


(***************************************************************************)
(* Part 3  DuckDB client: the SQL statements of each method, handed one    *)
(*         by one to the thread pool (run_in_executor), and the asyncio    *)
(*         lock some of them are issued under.                             *)
(***************************************************************************)
\* One SQL statement: what it is and whether it changes a table.
Stmt(sql, mutates) == [sql |-> sql, mutates |-> mutates]

\* _cleanup_expired: DELETE FROM kv_store WHERE expires_at < now
CleanupExpiredStmts == <<Stmt("DELETE kv_store expired", TRUE)>>

\* get: _cleanup_expired(), then the SELECT; no lock taken.
GetStmts == CleanupExpiredStmts \o <<Stmt("SELECT kv_store", FALSE)>>

\* _reindex_list: SELECT all, DELETE all, then one INSERT per row (one shown).
ReindexStmts ==
    <<Stmt("SELECT list_store", FALSE), Stmt("DELETE list_store", TRUE),
      Stmt("INSERT list_store", TRUE)>>

\* The statements of each client method, in the order it awaits them.
Statements(m) ==
    CASE m = "get" -> GetStmts
      [] m = "set" -> <<Stmt("INSERT OR REPLACE kv_store", TRUE)>>
      [] m = "delete" -> <<Stmt("DELETE kv_store", TRUE), Stmt("DELETE list_store", TRUE)>>
      [] m = "exists" -> <<Stmt("SELECT kv_store UNION list_store", FALSE)>>
      [] m = "rpush" -> <<Stmt("SELECT MAX(idx)", FALSE), Stmt("INSERT list_store", TRUE)>>
      [] m = "lpush" -> <<Stmt("UPDATE list_store idx", TRUE), Stmt("INSERT list_store", TRUE)>>
      [] m = "lrange" -> <<Stmt("SELECT list_store", FALSE)>>
      [] m = "llen" -> <<Stmt("SELECT COUNT list_store", FALSE)>>
      [] m = "ltrim" -> <<Stmt("DELETE list_store range", TRUE)>> \o ReindexStmts
      [] m = "expire" -> <<Stmt("UPDATE kv_store expires_at", TRUE)>>
      [] m = "ttl" -> <<Stmt("SELECT expires_at", FALSE)>>
      [] m = "incr" -> GetStmts \o <<Stmt("INSERT OR REPLACE kv_store", TRUE)>>
      [] m = "keys" -> <<Stmt("SELECT DISTINCT key", FALSE)>>
      [] m = "flush_all" -> <<Stmt("DELETE kv_store", TRUE), Stmt("DELETE list_store", TRUE)>>
      [] OTHER -> <<>>

\* The methods whose body is inside "async with self._lock".
UsesLock(m) ==
    m \in {"set", "delete", "rpush", "lpush", "ltrim", "expire", "incr", "flush_all"}

Methods ==
    {"get", "set", "delete", "exists", "rpush", "lpush", "lrange", "llen", "ltrim",
     "expire", "ttl", "incr", "keys", "flush_all"}

LockInit ==
    /\ lock = 0
    /\ call = [t \in Tasks |-> "none"]
    /\ step = [t \in Tasks |-> 0]
    /\ running = [t \in Tasks |-> FALSE]

\* A coroutine enters a client method.
Call(t, m) ==
    /\ call[t] = "none"
    /\ call' = [call EXCEPT ![t] = m]
    /\ step' = [step EXCEPT ![t] = 0]
    /\ UNCHANGED <<lock, running>>
    /\ UNCHANGED exceptLock

\* async with self._lock: entered when the lock is free.
Acquire(t) ==
    /\ call[t] # "none"
    /\ UsesLock(call[t])
    /\ step[t] = 0
    /\ ~running[t]
    /\ lock = 0
    /\ lock' = t
    /\ UNCHANGED <<call, step, running>>
    /\ UNCHANGED exceptLock

\* await run_in_executor(...): the next statement starts in the thread pool.
Submit(t) ==
    /\ call[t] # "none"
    /\ UsesLock(call[t]) => lock = t
    /\ ~running[t]
    /\ step[t] < Len(Statements(call[t]))
    /\ running' = [running EXCEPT ![t] = TRUE]
    /\ UNCHANGED <<lock, call, step>>
    /\ UNCHANGED exceptLock

\* The statement finishes and the coroutine resumes.
Complete(t) ==
    /\ running[t]
    /\ running' = [running EXCEPT ![t] = FALSE]
    /\ step' = [step EXCEPT ![t] = @ + 1]
    /\ UNCHANGED <<lock, call>>
    /\ UNCHANGED exceptLock

\* The method returns, leaving the "async with" block if it was in one.
Return(t) ==
    /\ call[t] # "none"
    /\ ~running[t]
    /\ step[t] = Len(Statements(call[t]))
    /\ lock' = IF lock = t THEN 0 ELSE lock
    /\ call' = [call EXCEPT ![t] = "none"]
    /\ step' = [step EXCEPT ![t] = 0]
    /\ UNCHANGED running
    /\ UNCHANGED exceptLock

\* The statement a task has in the thread pool.
Current(t) == Statements(call[t])[step[t] + 1]

(***************************************************************************)
(* Part 4  RAGEngine.search(): retrieval through Milvus (dense + sparse)   *)
(*         or pgvector (dense), then reranking or truncation.  Scores are  *)
(*         fixed-point, 10000 standing for 1.0.                            *)
(***************************************************************************)
\* MilvusService.hybrid_search(dense_weight=0.7, sparse_weight=0.3), in percent.
dense_weight == 70
sparse_weight == 30
\* settings.SPLADE_MAX_SCORE
SPLADE_MAX_SCORE == 10

Min2(a, b) == IF a < b THEN a ELSE b
Take(seq, n) == SubSeq(seq, 1, Min2(n, Len(seq)))
Ids(seq) == {seq[i].drug_id : i \in 1..Len(seq)}

\* A hit of a vector index: the entity and its distance.
Hit(d, score) == [drug_id |-> d, score |-> score]

SearchDrugs == {"d1", "d2", "d3"}

\* What the indexes may hold for the query: dense hits by cosine similarity,
\* sparse hits by raw inner product, best first.
DenseCases ==
    {<<>>, <<Hit("d1", 8000)>>, <<Hit("d1", 8000), Hit("d2", 4000)>>}
SparseCases ==
    {<<>>, <<Hit("d2", 5)>>, <<Hit("d3", 20), Hit("d1", 5)>>}
TopKs == {1, 2}

\* A candidate dict; keys lists the score fields it carries.
Cand(d, dense, sparse, hybrid, sim, ks) ==
    [drug_id |-> d, dense_score |-> dense, sparse_score |-> sparse,
     hybrid_score |-> hybrid, similarity |-> sim, relevance_score |-> 0, keys |-> ks]

\* SPLADEService.__init__
SpladeNew == [initialized |-> FALSE, load_failed |-> FALSE]

\* SPLADEService.initialize: a failed load is latched and never retried.
SpladeInitialize(sp, load_ok) ==
    IF sp.initialized \/ sp.load_failed THEN sp
    ELSE IF load_ok THEN [initialized |-> TRUE, load_failed |-> FALSE]
    ELSE [initialized |-> FALSE, load_failed |-> TRUE]

\* SPLADEService.encode: no model, no tokens.
SpladeEncode(sp, tokens) == IF sp.initialized THEN tokens ELSE {}

\* The query's lexical weights when the model is loaded.
QueryTokens == {"t1", "t2"}

\* min(raw / SPLADE_MAX_SCORE, 1.0)
NormalizeSparse(raw) == Min2((raw * 10000) \div SPLADE_MAX_SCORE, 10000)

\* The weights applied to the wrong sides.
HybridScoreSwapped(dense, sparse) == (dense_weight * sparse + sparse_weight * dense) \div 100

\* Hybrid Score = sparse * weight + dense * weight
HybridScore(dense, sparse) == (sparse_weight * sparse + dense_weight * dense) \div 100

\* results_map after the dense hits, then the sparse hits, in insertion order.
RECURSIVE MergeSparse(_, _)
MergeSparse(merged, hits) ==
    IF hits = <<>> THEN merged
    ELSE LET h == Head(hits)
             s == NormalizeSparse(h.score)
             at == {i \in 1..Len(merged) : merged[i].drug_id = h.drug_id}
         IN  IF at # {}
             THEN MergeSparse([i \in 1..Len(merged) |->
                                  IF i \in at THEN [merged[i] EXCEPT !.sparse_score = s]
                                  ELSE merged[i]], Tail(hits))
             ELSE MergeSparse(Append(merged, Cand(h.drug_id, 0, s, 0, 0, {})), Tail(hits))

\* list.sort(key=hybrid_score, reverse=True): stable, best first.
RECURSIVE InsertByHybrid(_, _)
InsertByHybrid(sorted, c) ==
    IF sorted = <<>> THEN <<c>>
    ELSE IF Head(sorted).hybrid_score >= c.hybrid_score
         THEN <<Head(sorted)>> \o InsertByHybrid(Tail(sorted), c)
         ELSE <<c>> \o sorted

RECURSIVE SortByHybrid(_)
SortByHybrid(seq) ==
    IF seq = <<>> THEN <<>>
    ELSE InsertByHybrid(SortByHybrid(SubSeq(seq, 1, Len(seq) - 1)), seq[Len(seq)])

MilvusKeys == {"dense_score", "sparse_score", "hybrid_score", "similarity"}

\* MilvusService.hybrid_search with a working client: both searches, merge,
\* score, sort, truncate; _search_with_milvus_hybrid then makes the dicts.
HybridSearch(dense, sparse, k) ==
    LET from_dense == [i \in 1..Len(Take(dense, k * 2)) |->
                          Cand(dense[i].drug_id, dense[i].score, 0, 0, 0, {})]
        merged == MergeSparse(from_dense, Take(sparse, k * 2))
        scored == [i \in 1..Len(merged) |->
                      LET h == HybridScore(merged[i].dense_score, merged[i].sparse_score)
                      IN  Cand(merged[i].drug_id, merged[i].dense_score,
                               merged[i].sparse_score, h, h, MilvusKeys)]
    IN  Take(SortByHybrid(scored), k)

\* _search_with_pgvector: search_similar, then dense_score = similarity.
PgvectorSearch(dense, k) ==
    [i \in 1..Len(Take(dense, k)) |->
        Cand(dense[i].drug_id, dense[i].score, 0, 0, dense[i].score,
             {"similarity", "dense_score"})]

\* top_k * expand_factor
InitialTopK(cfg, k) ==
    IF cfg.use_reranking /\ cfg.reranker_enabled THEN k * 5 ELSE k * 3

\* The answers the rerank API may give: top_n distinct indexes, each scored.
RerankOrders(n, top_n) ==
    {o \in [1..Min2(top_n, n) -> 1..n] : \A i, j \in DOMAIN o : i # j => o[i] # o[j]}

\* settings.RERANK_TOP_N
RERANK_TOP_N == 5

\* top_n = top_n or settings.RERANK_TOP_N  (0 stands for None)
RerankTopN(top_n) == IF top_n = 0 THEN RERANK_TOP_N ELSE top_n

\* CohereReranker.rerank: the documents themselves when the reranker is
\* disabled or there are none; else the API's order with relevance_score
\* added, or the input truncated when the call fails.
Rerank(enabled, docs, top_n, order, fails) ==
    IF ~enabled \/ docs = <<>> THEN docs
    ELSE IF fails THEN Take(docs, RerankTopN(top_n))
    ELSE [i \in DOMAIN order |->
             [docs[order[i]] EXCEPT !.relevance_score = 10000 - i,
                                    !.keys = @ \cup {"relevance_score"}]]

\* SearchResult(...): similarity falls back hybrid_score, similarity, dense_score.
ToSearchResult(r) ==
    [r EXCEPT !.similarity =
        IF "hybrid_score" \in r.keys THEN r.hybrid_score
        ELSE IF "similarity" \in r.keys THEN r.similarity
        ELSE IF "dense_score" \in r.keys THEN r.dense_score ELSE 0]

NoCfg ==
    [enable_milvus |-> FALSE, milvus_up |-> FALSE, use_reranking |-> FALSE,
     reranker_enabled |-> FALSE]

NoRerank == [enabled |-> FALSE, documents |-> <<>>, top_n |-> 0, fails |-> FALSE,
             called |-> FALSE]

SearchInit ==
    /\ spc = "idle"
    /\ scfg = NoCfg
    /\ top_k = 1
    /\ dense_hits = <<>>
    /\ sparse_hits = <<>>
    /\ query_embedding = FALSE
    /\ sparse_vector = {}
    /\ splade = SpladeNew
    /\ search_path = <<>>
    /\ results = <<>>
    /\ rerank_args = NoRerank
    /\ rerank_ret = <<>>

\* search() is called; settings, index contents and arguments are the inputs.
BeginSearch(cfg, k, dense, sparse, given) ==
    /\ spc = "idle"
    /\ spc' = "begun"
    /\ scfg' = cfg
    /\ top_k' = k
    /\ dense_hits' = dense
    /\ sparse_hits' = sparse
    /\ query_embedding' = given
    /\ sparse_vector' = {}
    /\ search_path' = <<>>
    /\ results' = <<>>
    /\ UNCHANGED splade
    /\ UNCHANGED exceptSearch

\* embed_text(query) when no embedding was passed in.  In Milvus mode a
\* failure lands in the except branch, otherwise it propagates.
EmbedQuery(ok) ==
    /\ spc = "begun"
    /\ query_embedding => ok
    /\ query_embedding' = ok
    /\ spc' = IF ok THEN (IF scfg.enable_milvus THEN "embedded" ELSE "pgvector")
              ELSE (IF scfg.enable_milvus THEN "except" ELSE "raised")
    /\ UNCHANGED <<scfg, top_k, dense_hits, sparse_hits, sparse_vector, splade,
                   search_path, results>>
    /\ UNCHANGED exceptSearch

\* splade_service.encode(query): loads the model on first use.
EncodeSparse(load_ok) ==
    /\ spc = "embedded"
    /\ splade' = SpladeInitialize(splade, load_ok)
    /\ sparse_vector' = SpladeEncode(SpladeInitialize(splade, load_ok), QueryTokens)
    /\ spc' = "encoded"
    /\ UNCHANGED <<scfg, top_k, dense_hits, sparse_hits, query_embedding,
                   search_path, results>>
    /\ UNCHANGED exceptSearch

\* milvus_service.hybrid_search: any exception inside it (no client, or the
\* server refusing the empty sparse query) is logged and [] is returned.
MilvusHybridSearch(refused) ==
    /\ spc = "encoded"
    /\ refused => sparse_vector = {}
    /\ results' =
           IF ~scfg.milvus_up \/ refused THEN <<>>
           ELSE HybridSearch(dense_hits,
                             IF sparse_vector = {} THEN <<>> ELSE sparse_hits,
                             InitialTopK(scfg, top_k))
    /\ search_path' = Append(search_path, "milvus")
    /\ spc' = "retrieved"
    /\ UNCHANGED <<scfg, top_k, dense_hits, sparse_hits, query_embedding,
                   sparse_vector, splade>>
    /\ UNCHANGED exceptSearch

\* except branch of _search_with_milvus_hybrid: _search_with_pgvector with the
\* embedding it has, which embeds again when there is none.
ExceptFallback(ok) ==
    /\ spc = "except"
    /\ query_embedding' = ok
    /\ spc' = IF ok THEN "pgvector" ELSE "raised"
    /\ search_path' = Append(search_path, "except")
    /\ UNCHANGED <<scfg, top_k, dense_hits, sparse_hits, sparse_vector, splade, results>>
    /\ UNCHANGED exceptSearch

\* _search_with_pgvector
PgvectorDense ==
    /\ spc = "pgvector"
    /\ results' = PgvectorSearch(dense_hits, InitialTopK(scfg, top_k))
    /\ search_path' = Append(search_path, "pgvector")
    /\ spc' = "retrieved"
    /\ UNCHANGED <<scfg, top_k, dense_hits, sparse_hits, query_embedding,
                   sparse_vector, splade>>
    /\ UNCHANGED exceptSearch

\* The tail of search(): rerank when asked for, enabled and there are
\* candidates, truncate to top_k otherwise; convert to SearchResult.
FinalResults(use_reranking, enabled, candidates, k, order, fails) ==
    LET final == IF use_reranking /\ enabled /\ candidates # <<>>
                 THEN Rerank(enabled, candidates, k, order, fails)
                 ELSE Take(candidates, k)
    IN  [i \in 1..Len(final) |-> ToSearchResult(final[i])]

\* The API is called, and answers or fails, only when search() reranks.
RerankFate(use_reranking, enabled, candidates, k, order, fails) ==
    IF use_reranking /\ enabled /\ candidates # <<>>
    THEN order \in RerankOrders(Len(candidates), k)
    ELSE ~fails /\ order = <<>>

FinishSearch(order, fails) ==
    /\ spc = "retrieved"
    /\ RerankFate(scfg.use_reranking, scfg.reranker_enabled, results, top_k, order, fails)
    /\ results' = FinalResults(scfg.use_reranking, scfg.reranker_enabled, results, top_k,
                               order, fails)
    /\ spc' = "done"
    /\ UNCHANGED <<scfg, top_k, dense_hits, sparse_hits, query_embedding,
                   sparse_vector, splade, search_path>>
    /\ UNCHANGED exceptSearch

\* The call is over; the engine takes the next one.
EndSearch ==
    /\ spc \in {"done", "raised"}
    /\ spc' = "idle"
    /\ scfg' = NoCfg
    /\ top_k' = 1
    /\ dense_hits' = <<>>
    /\ sparse_hits' = <<>>
    /\ query_embedding' = FALSE
    /\ sparse_vector' = {}
    /\ search_path' = <<>>
    /\ results' = <<>>
    /\ UNCHANGED splade
    /\ UNCHANGED exceptSearch

\* reranker.rerank(query, documents, top_n) called on its own: the API answers
\* with an order of min(top_n, len(documents)) indexes, or fails.
CallRerank(enabled, docs, top_n, order, fails) ==
    /\ IF enabled /\ docs # <<>> /\ ~fails
       THEN order \in RerankOrders(Len(docs), RerankTopN(top_n))
       ELSE order = <<>>
    /\ rerank_args' = [enabled |-> enabled, documents |-> docs, top_n |-> top_n,
                       fails |-> fails, called |-> TRUE]
    /\ rerank_ret' = Rerank(enabled, docs, top_n, order, fails)
    /\ UNCHANGED exceptRerank

(***************************************************************************)
(* Part 5  POST /chat: cache lookup, search_and_generate, cache write and  *)
(*         history append.  The memory service runs on both backends in    *)
(*         lockstep; requests are served one at a time.                    *)
(***************************************************************************)
\* GraphEnhancement(): nothing related, no warnings.
NoGraph == [raised |-> FALSE, related |-> {}]

\* The same without the try/except around the graph queries.
GetGraphEnhancementUnguarded(enable_neo4j, drug_ids, graph_fails) ==
    IF ~enable_neo4j THEN NoGraph
    ELSE [raised |-> graph_fails, related |-> Ids(Take(drug_ids, 3))]

\* _get_graph_enhancement: related drugs of the first three results; any
\* failure of the graph store is logged and an empty enhancement returned.
GetGraphEnhancement(enable_neo4j, drug_ids, graph_fails) ==
    IF ~enable_neo4j THEN NoGraph
    ELSE IF graph_fails THEN NoGraph
    ELSE [raised |-> FALSE, related |-> Ids(Take(drug_ids, 3))]

\* RAGResponse; raised: the call ended in an exception instead.
RAGResponse(res, dis, ai, graph) ==
    [raised |-> FALSE, results |-> res, disease_results |-> dis, ai_response |-> ai,
     graph_data |-> graph]
RagRaised ==
    [raised |-> TRUE, results |-> <<>>, disease_results |-> <<>>, ai_response |-> "",
     graph_data |-> NoGraph]

\* search_diseases: the diseases retrieved for the query.
SearchDiseases(has_disease) == IF has_disease THEN <<"dis1">> ELSE <<>>

\* The same with the LLM's exception left to propagate.
SearchAndGenerateLlmRaises(env, candidates, k, order) ==
    LET drug_results == FinalResults(TRUE, env.reranker_enabled, candidates, k, order,
                                     env.rerank_fails)
        disease_results == SearchDiseases(env.has_disease)
        graph_data == GetGraphEnhancement(env.enable_neo4j, drug_results, env.graph_fails)
    IN  IF ~env.embed_ok THEN RagRaised
        ELSE IF drug_results = <<>> /\ disease_results = <<>>
        THEN RAGResponse(<<>>, <<>>, "apology", NoGraph)
        ELSE IF graph_data.raised \/ env.llm_fails THEN RagRaised
        ELSE RAGResponse(drug_results, disease_results, "answer", graph_data)

\* search_and_generate: embed (a failure propagates), search with reranking,
\* disease search, the apology when nothing was found, graph enhancement,
\* then the LLM answer or the fixed text when the LLM fails.
SearchAndGenerate(env, candidates, k, order) ==
    LET drug_results == FinalResults(TRUE, env.reranker_enabled, candidates, k, order,
                                     env.rerank_fails)
        disease_results == SearchDiseases(env.has_disease)
        graph_data == GetGraphEnhancement(env.enable_neo4j, drug_results, env.graph_fails)
    IN  IF ~env.embed_ok THEN RagRaised
        ELSE IF drug_results = <<>> /\ disease_results = <<>>
        THEN RAGResponse(<<>>, <<>>, "apology", NoGraph)
        ELSE IF graph_data.raised THEN RagRaised
        ELSE RAGResponse(drug_results, disease_results,
                         IF env.llm_fails THEN "fallback" ELSE "answer", graph_data)

\* What chat_with_rag reads of a pipeline run: the sources it builds from
\* response.results and the answer.  embed_ok, found (how many of the
\* candidates top_k admits) and the collaborators that failed are kept from
\* the run's inputs.
RagRun(env, candidates, k, order) ==
    LET rag == SearchAndGenerate(env, candidates, k, order)
    IN  [embed_ok |-> env.embed_ok, found |-> Min2(k, Len(candidates)),
         failed |-> {c \in {"reranker", "graph"} :
                        \/ c = "reranker" /\ env.rerank_fails /\ candidates # <<>>
                        \/ c = "graph" /\ env.graph_fails /\ rag.results # <<>>},
         raised |-> rag.raised,
         sources |-> [i \in 1..Len(rag.results) |-> rag.results[i].drug_id],
         ai_response |-> rag.ai_response]

\* ChatResponse, or HTTPException(500).
ChatResponse(msg, srcs, cached, turn) ==
    [status |-> 200, message |-> msg, sources |-> srcs, from_cache |-> cached,
     conversation_turn |-> turn]
Http500 ==
    [status |-> 500, message |-> "", sources |-> <<>>, from_cache |-> FALSE,
     conversation_turn |-> 0]

\* A memory client whose store is down answers None, False, 0 or [] and
\* leaves the store as it is.
MemGetCached(up, b, st, h, t) == IF up THEN GetCachedResponseResult(b, st, h, t) ELSE NoVal
MemGetCachedStore(up, b, st, h, t) == IF up THEN GetCachedResponseStore(b, st, h, t) ELSE st
MemCacheResponse(up, b, st, h, resp, t) ==
    IF up THEN CacheResponseStore(b, st, h, resp, t) ELSE st
MemAddToHistory(up, b, st, s, turn, t) ==
    IF up THEN AddToHistoryStore(b, st, s, turn, t) ELSE st
MemGetHistory(up, b, st, s, limit) == IF up THEN GetHistory(b, st, s, limit) ELSE <<>>

\* chat_with_rag on backend b: the store it leaves and the response.  The
\* sources of a cached entry are not kept in the stored value.
ChatWithRag(b, st, req, rag, turn, t) ==
    LET s == req.session_id
        q == req.message
        up == req.memory_up
        cached == MemGetCached(up, b, st, q, t)
        st1 == MemGetCachedStore(up, b, st, q, t)
        hit == MemAddToHistory(up, b, st1, s, turn, t)
        history_length == Len(MemGetHistory(up, b, st1, s, 0))
        st2 == MemCacheResponse(up, b, st1, q, rag.ai_response, t)
        st3 == MemAddToHistory(up, b, st2, s, turn, t)
        srcs == rag.sources
    IN  IF req.use_memory /\ cached # NoVal
        THEN [store |-> hit,
              resp |-> ChatResponse(cached.response, <<>>, TRUE,
                                    Len(MemGetHistory(up, b, hit, s, 0)))]
        ELSE IF rag.raised
        THEN [store |-> IF req.use_memory THEN st1 ELSE st, resp |-> Http500]
        ELSE IF req.use_memory
        THEN [store |-> st3,
              resp |-> ChatResponse(rag.ai_response, srcs, FALSE, history_length + 1)]
        ELSE [store |-> st, resp |-> ChatResponse(rag.ai_response, srcs, FALSE, 0)]

NoReq == [session_id |-> "", message |-> "", use_memory |-> FALSE, memory_up |-> FALSE,
          at |-> 0, fresh |-> [b \in Backends |-> FALSE]]
NoRun == [embed_ok |-> FALSE, found |-> 0, failed |-> {}, raised |-> TRUE, sources |-> <<>>,
          ai_response |-> ""]

ChatInit ==
    /\ chat_req = NoReq
    /\ chat_resp = [b \in Backends |-> Http500]
    /\ rag_resp = NoRun
    /\ nchat = 0

\* The session has no history and the message no cache entry on backend b.
Fresh(b, st, s, q, t) ==
    /\ GetHistory(b, st, s, 0) = <<>>
    /\ GetCachedResponseResult(b, st, q, t) = NoVal

\* POST /chat {message, session_id, top_k, use_memory}.  rag is the run of
\* search_and_generate the request makes when the cache does not answer.
Chat(s, q, use_memory, memory_up, rag) ==
    LET req == [session_id |-> s, message |-> q, use_memory |-> use_memory,
                memory_up |-> memory_up, at |-> now,
                fresh |-> [b \in Backends |->
                              Fresh(b, IF b = "redis" THEN redis ELSE duck, s, q, now)]]
        r == ChatWithRag("redis", redis, req, rag, nappend[s] + 1, now)
        d == ChatWithRag("duckdb", duck, req, rag, nappend[s] + 1, now)
    IN  /\ nchat < MaxChats
        /\ chat_req' = req
        /\ chat_resp' = [b \in Backends |-> IF b = "redis" THEN r.resp ELSE d.resp]
        /\ rag_resp' = rag
        /\ redis' = r.store
        /\ duck' = d.store
        /\ nchat' = nchat + 1
        /\ nappend' = [nappend EXCEPT ![s] = IF use_memory /\ memory_up THEN @ + 1 ELSE @]
        /\ appended_at' = [appended_at EXCEPT ![s] = IF use_memory /\ memory_up THEN now ELSE @]
        /\ lastOp' = Op("chat", HistoryKey(s), now, FALSE)
        /\ UNCHANGED <<now, rres, dres>>
        /\ UNCHANGED exceptChat

NoSag == [called |-> FALSE]

GenerateInit ==
    /\ sag_args = NoSag
    /\ sag_ret = RagRaised

\* search_and_generate(query, top_k) in a given state of its collaborators;
\* in.candidates is what retrieval finds and in.order the reranker's answer.
CallSearchAndGenerate(in) ==
    /\ sag_args' = [called |-> TRUE, env |-> in.env, candidates |-> in.candidates,
                    top_k |-> in.top_k]
    /\ sag_ret' = SearchAndGenerate(in.env, in.candidates, in.top_k, in.order)
    /\ UNCHANGED exceptGenerate

(***************************************************************************)
(* Part 6  Fusion of dense and sparse candidates: HybridSearchService      *)
(*         (dense + BM25) and MilvusService.hybrid_search (dense + SPLADE, *)
(*         HybridSearch of Part 4).                                        *)
(***************************************************************************)
\* HybridSearchService.BM25_MAX_SCORE
BM25_MAX_SCORE == 30

\* _normalize_bm25_score: min(score / BM25_MAX_SCORE, 1.0)
NormalizeBm25(score) == Min2((score * 10000) \div BM25_MAX_SCORE, 10000)

\* {r["drug_id"]: r for r in results}[d]: the last record with that id.
ScoreOf(hits, d) ==
    LET at == {i \in 1..Len(hits) : hits[i].drug_id = d}
    IN  hits[CHOOSE i \in at : \A j \in at : j <= i].score

Bm25Keys == {"dense_score", "bm25_score", "hybrid_score", "similarity"}

\* HybridSearchService.search: the ids of both maps are gathered in a set and
\* visited in the set's iteration order (which depends on the string hashes
\* of the process); each gets its scores, then the list is sorted by
\* hybrid_score, best first, and cut to top_k.
HybridServiceSearch(dense_results, bm25_results, iteration, k) ==
    LET Result(d) ==
            LET dense_score == IF d \in Ids(dense_results)
                               THEN ScoreOf(dense_results, d) ELSE 0
                sparse_score == IF d \in Ids(bm25_results)
                                THEN NormalizeBm25(ScoreOf(bm25_results, d)) ELSE 0
                hybrid_score == HybridScore(dense_score, sparse_score)
            IN  Cand(d, dense_score, sparse_score, hybrid_score,
                     IF d \in Ids(dense_results) THEN dense_score ELSE hybrid_score,
                     Bm25Keys)
        hybrid_results == [i \in 1..Len(iteration) |-> Result(iteration[i])]
    IN  Take(SortByHybrid(hybrid_results), k)

NoFusion == [dense |-> <<>>, sparse |-> <<>>, top_k |-> 0, called |-> FALSE]

FusionInit ==
    /\ fusion_args = NoFusion
    /\ fusion_ret = [bm25 |-> <<>>, milvus |-> <<>>]

\* Both fusions are given the same candidates; iteration is the order in
\* which the set of ids comes out in HybridSearchService.search.
CallFusion(dense, sparse, k, iteration) ==
    /\ fusion_args' = [dense |-> dense, sparse |-> sparse, top_k |-> k, called |-> TRUE]
    /\ fusion_ret' = [bm25 |-> HybridServiceSearch(dense, sparse, iteration, k),
                      milvus |-> HybridSearch(dense, sparse, k)]
    /\ UNCHANGED exceptFusion

(***************************************************************************)
(* Part 7  Dense search in pgvector: VectorDBService.search_similar.       *)
(*         Distances and similarities are fixed-point, 10000 standing for  *)
(*         1.0; the cosine distance <=> ranges over [0, 2].                *)
(***************************************************************************)
\* 1 - (v.embedding <=> query) as similarity
Similarity(distance) == 10000 - distance

\* float(row.similarity) if row.similarity else 0.0
RowSimilarity(similarity) == IF similarity = 0 THEN 0 ELSE similarity

DenseInit ==
    /\ drug_vectors = [d \in SearchDrugs |-> -1]
    /\ similar_ret = <<>>

\* add_vector / delete of a drug's vector; dist is how far it lies from the query.
StoreVector(d, dist) ==
    /\ drug_vectors[d] # dist
    /\ drug_vectors' = [drug_vectors EXCEPT ![d] = dist]
    /\ UNCHANGED similar_ret
    /\ UNCHANGED exceptDense

\* search_similar: ORDER BY distance LIMIT top_k; order is the order in which
\* the store returns the rows (rows at equal distance come in any order).
SearchSimilar(k, order) ==
    /\ {order[i] : i \in 1..Len(order)} = {d \in SearchDrugs : drug_vectors[d] # -1}
    /\ \A i, j \in 1..Len(order) :
          i < j => drug_vectors[order[i]] <= drug_vectors[order[j]]
    /\ similar_ret' =
           [i \in 1..Min2(k, Len(order)) |->
               Hit(order[i], RowSimilarity(Similarity(drug_vectors[order[i]])))]
    /\ UNCHANGED drug_vectors
    /\ UNCHANGED exceptDense

(***************************************************************************)
(* Part 8  KoreanTokenizer.tokenize (services/bm25_search.py).  A text is  *)
(*         a sequence of characters and a token a sequence of characters;  *)
(*         the dictionaries are the entries of the source's dictionaries   *)
(*         that can be spelled with, or are emitted for, the characters of *)
(*         Alphabet.  Hangul syllables are written romanised: "sok" "i" is *)
(*         the dictionary key U+C18D U+C774, "wi" the stopword U+C704,     *)
(*         "yeo" "gi" the stopword U+C5EC U+AE30.                          *)
(***************************************************************************)
Hangul == {"sok", "i", "wi", "yeo", "gi"}
Alphabet == Hangul \cup {"A", "a", " ", "!"}

stopwords == {<<"i">>, <<"wi">>, <<"yeo", "gi">>}

symptom_keywords == {<<"sok", "sseu", "rim">>}

symptom_synonyms ==
    [key \in {<<"sok", "i">>} |->
        << <<"so", "hwa">>, <<"wi", "jang">>, <<"sok", "sseu", "rim">>, <<"wi">> >>]

\* The keys in dictionary order.
SynonymKeys == << <<"sok", "i">> >>

\* str.lower()
Lower(c) == IF c = "A" THEN "a" ELSE c

\* re.sub(r'[^\w\s<hangul>]', ' ', text)
Despecial(c) == IF c = "!" THEN " " ELSE c

Cleaned(text) == [i \in 1..Len(text) |-> Despecial(Lower(text[i]))]

\* str.split(): the maximal runs of non-blank characters.
RECURSIVE SplitFrom(_, _, _)
SplitFrom(text, i, word) ==
    IF i > Len(text)
    THEN IF word = <<>> THEN <<>> ELSE <<word>>
    ELSE IF text[i] = " "
         THEN (IF word = <<>> THEN <<>> ELSE <<word>>) \o SplitFrom(text, i + 1, <<>>)
         ELSE SplitFrom(text, i + 1, Append(word, text[i]))

Split(text) == SplitFrom(text, 1, <<>>)

\* [t for t in tokens if t not in self.stopwords and len(t) > 1]
RECURSIVE Kept(_)
Kept(tokens) ==
    IF tokens = <<>> THEN <<>>
    ELSE (IF Head(tokens) \notin stopwords /\ Len(Head(tokens)) > 1
          THEN <<Head(tokens)>> ELSE <<>>) \o Kept(Tail(tokens))

\* a in b for strings
Within(a, b) ==
    \E i \in 0..(Len(b) - Len(a)) : SubSeq(b, i + 1, i + Len(a)) = a

RECURSIVE Flatten(_)
Flatten(seqs) == IF seqs = <<>> THEN <<>> ELSE Head(seqs) \o Flatten(Tail(seqs))

\* The synonyms of a term found in the dictionary, each symptom keyword twice.
Weighted(synonyms) ==
    Flatten([i \in 1..Len(synonyms) |->
        IF synonyms[i] \in symptom_keywords
        THEN <<synonyms[i], synonyms[i]>> ELSE <<synonyms[i]>>])

\* The synonym expansion of one token: exact entry, then partial matches.
Expansion(token) ==
    (IF token \in DOMAIN symptom_synonyms
     THEN Weighted(symptom_synonyms[token]) ELSE <<>>)
    \o Flatten([i \in 1..Len(SynonymKeys) |->
           IF Within(SynonymKeys[i], token) \/ Within(token, SynonymKeys[i])
           THEN symptom_synonyms[SynonymKeys[i]] ELSE <<>>])

\* The 2-grams of a token, each followed by its synonyms when expanding.
BiGrams(token, expand_synonyms) ==
    Flatten([i \in 1..(Len(token) - 1) |->
        <<SubSeq(token, i, i + 1)>>
        \o (IF expand_synonyms /\ SubSeq(token, i, i + 1) \in DOMAIN symptom_synonyms
            THEN symptom_synonyms[SubSeq(token, i, i + 1)] ELSE <<>>)])

TriGrams(token) ==
    IF Len(token) >= 3
    THEN [i \in 1..(Len(token) - 2) |-> SubSeq(token, i, i + 2)]
    ELSE <<>>

\* re.match(r'^[<hangul>]+$', token)
IsHangul(token) == \A i \in 1..Len(token) : token[i] \in Hangul

\* One pass of the loop body over a kept token.
TokenGrams(token, expand_synonyms) ==
    <<token>>
    \o (IF expand_synonyms THEN Expansion(token) ELSE <<>>)
    \o (IF IsHangul(token) /\ Len(token) >= 2
        THEN BiGrams(token, expand_synonyms) \o TriGrams(token) ELSE <<>>)
    \o (IF token \in symptom_keywords THEN <<token, token>> ELSE <<>>)

tokenize(text, expand_synonyms) ==
    IF text = <<>> THEN <<>>
    ELSE Flatten([i \in 1..Len(Kept(Split(Cleaned(text)))) |->
             TokenGrams(Kept(Split(Cleaned(text)))[i], expand_synonyms)])

NoTokenize == [text |-> <<>>, expand_synonyms |-> FALSE]

TokenizerInit ==
    /\ tokenize_args = NoTokenize
    /\ tokenize_ret = <<>>

CallTokenize(text, expand_synonyms) ==
    /\ tokenize_args' = [text |-> text, expand_synonyms |-> expand_synonyms]
    /\ tokenize_ret' = tokenize(text, expand_synonyms)
    /\ UNCHANGED exceptTokenizer

(***************************************************************************)
(* Part 9  DataSyncService.sync_drugs: fetch, preprocess, upsert the Drug  *)
(*         rows, and optionally rebuild the dense vectors and the native   *)
(*         hybrid index.  fail_at names the step that raises, if any.      *)
(***************************************************************************)
Catalog == {"d1", "d2", "d3"}

SyncSteps == <<"fetch", "save", "delete_all", "embed", "add_vectors", "qdrant">>

StepNo(name) == CHOOSE i \in 1..Len(SyncSteps) : SyncSteps[i] = name

\* The steps a call reaches when nothing fails.
StepsRun(fetched, build_vectors, enable_qdrant) ==
    {"fetch"}
    \cup (IF fetched # {} THEN {"save"} ELSE {})
    \cup (IF fetched # {} /\ build_vectors
          THEN {"delete_all", "embed", "add_vectors"} ELSE {})
    \cup (IF fetched # {} /\ build_vectors /\ enable_qdrant THEN {"qdrant"} ELSE {})

Stats(fetched, processed, saved, vectors_created, errors) ==
    [fetched |-> fetched, processed |-> processed, saved |-> saved,
     vectors_created |-> vectors_created, errors |-> errors]

\* Did the call get past the named step?
Past(fail_at, name) == fail_at = "none" \/ StepNo(fail_at) > StepNo(name)

\* _save_drugs: upsert by id, one commit at the end.
SaveDrugs(rows, processed) == rows \cup processed

\* _build_vectors up to the failing step: delete_all commits the deletion,
\* add_vectors_batch commits one row per processed item.
BuildVectors(rows, processed, fail_at) ==
    IF ~Past(fail_at, "delete_all") THEN rows
    ELSE IF ~Past(fail_at, "add_vectors") THEN {}
    ELSE processed

\* The same with a failing dense embedding logged and skipped.
SyncOutcomeEmbedSwallowed(rows, vectors, in) ==
    LET processed == in.fetched \ in.unclean
        done == in.fail_at \in {"none", "qdrant", "embed"}
    IN  IF in.fetched = {} /\ in.fail_at = "none"
        THEN [drugs |-> rows, vectors |-> vectors, raised |-> FALSE,
              stats |-> Stats(0, 0, 0, 0, 0)]
        ELSE [drugs |-> IF Past(in.fail_at, "save") THEN SaveDrugs(rows, processed) ELSE rows,
              vectors |-> IF in.build_vectors /\ Past(in.fail_at, "save")
                          THEN BuildVectors(vectors, processed, in.fail_at) ELSE vectors,
              raised |-> ~done,
              stats |-> Stats(IF Past(in.fail_at, "fetch") THEN Cardinality(in.fetched) ELSE 0,
                              IF Past(in.fail_at, "fetch") THEN Cardinality(processed) ELSE 0,
                              IF Past(in.fail_at, "save") THEN Cardinality(processed) ELSE 0,
                              IF in.build_vectors /\ done /\ in.fail_at # "embed"
                              THEN Cardinality(processed) ELSE 0,
                              IF done THEN 0 ELSE 1)]

\* sync_drugs: the rows it leaves committed, its stats, and whether it
\* raised.  A failure of the hybrid-store indexing is logged inside
\* _build_qdrant_vectors and does not reach sync_drugs.
SyncOutcome(rows, vectors, in) ==
    LET processed == in.fetched \ in.unclean
        done == in.fail_at \in {"none", "qdrant"}
    IN  IF in.fetched = {} /\ in.fail_at = "none"
        THEN [drugs |-> rows, vectors |-> vectors, raised |-> FALSE,
              stats |-> Stats(0, 0, 0, 0, 0)]
        ELSE [drugs |-> IF Past(in.fail_at, "save") THEN SaveDrugs(rows, processed) ELSE rows,
              vectors |-> IF in.build_vectors /\ Past(in.fail_at, "save")
                          THEN BuildVectors(vectors, processed, in.fail_at) ELSE vectors,
              raised |-> ~done,
              stats |-> Stats(IF Past(in.fail_at, "fetch") THEN Cardinality(in.fetched) ELSE 0,
                              IF Past(in.fail_at, "fetch") THEN Cardinality(processed) ELSE 0,
                              IF Past(in.fail_at, "save") THEN Cardinality(processed) ELSE 0,
                              IF in.build_vectors /\ done THEN Cardinality(processed) ELSE 0,
                              IF done THEN 0 ELSE 1)]

NoSync == [called |-> FALSE]

SyncInit ==
    /\ drug_rows = {}
    /\ vector_rows = {}
    /\ sync_args = NoSync
    /\ sync_ret = [raised |-> FALSE, stats |-> Stats(0, 0, 0, 0, 0)]

\* POST /admin/sync.  in: what the catalog returns, the items preprocessing
\* rejects, build_vectors, ENABLE_QDRANT and the failing step.
SyncDrugs(in) ==
    LET out == SyncOutcome(drug_rows, vector_rows, in)
    IN  /\ in.unclean \subseteq in.fetched
        /\ in.fail_at # "none" =>
               in.fail_at \in StepsRun(in.fetched, in.build_vectors, in.enable_qdrant)
                                 \cup {"fetch"}
        /\ in.fail_at = "fetch" => in.fetched = {}
        /\ drug_rows' = out.drugs
        /\ vector_rows' = out.vectors
        /\ sync_args' = [called |-> TRUE, fetched |-> in.fetched, unclean |-> in.unclean,
                         build_vectors |-> in.build_vectors,
                         enable_qdrant |-> in.enable_qdrant, fail_at |-> in.fail_at,
                         drugs_before |-> drug_rows, vectors_before |-> vector_rows]
        /\ sync_ret' = [raised |-> out.raised, stats |-> out.stats]
        /\ UNCHANGED exceptSync

(***************************************************************************)
(* Part 10 DuckDBClient.ltrim statement by statement against lrange and    *)
(*         llen of the same key.  ltrim holds the asyncio lock but awaits  *)
(*         the thread pool between its statements; lrange and llen take no *)
(*         lock, and no statement runs in a transaction.                   *)
(***************************************************************************)
ListValues == {"a", "b"}

TrimIdle == [pc |-> "idle", rows |-> <<>>, i |-> 0, pre |-> <<>>, post |-> <<>>]

NoRead == [op |-> "none", start |-> 0, end |-> 0, result |-> <<>>, pre |-> <<>>, post |-> <<>>]

TrimInit ==
    /\ list_rows = <<>>
    /\ trim = TrimIdle
    /\ list_read = NoRead

\* SELECT value ... WHERE idx >= start [AND idx <= end] ORDER BY idx
SelectRange(rows, s, e) ==
    RowValues(SelectSeq(rows, LAMBDA row : DuckRowInRange(row, s, e)))

\* rpush, under the lock: it cannot start while ltrim holds it.
ListRPush(v) ==
    /\ trim.pc = "idle"
    /\ Len(list_rows) < MaxLen
    /\ list_rows' = Append(list_rows, ListRow(DuckMaxIdx(list_rows) + 1, v))
    /\ UNCHANGED <<trim, list_read>>
    /\ UNCHANGED exceptTrim

\* ltrim, first statement: DELETE the rows outside the range.
LTrimDelete(s, e) ==
    /\ trim.pc = "idle"
    /\ list_rows' = SelectSeq(list_rows, LAMBDA row : DuckRowInRange(row, s, e))
    /\ trim' = [pc |-> "deleted", rows |-> <<>>, i |-> 0, pre |-> list_rows,
                post |-> DuckReindex(SelectSeq(list_rows,
                                               LAMBDA row : DuckRowInRange(row, s, e)))]
    /\ UNCHANGED list_read
    /\ UNCHANGED exceptTrim

\* _reindex_list: SELECT value ... ORDER BY idx
ReindexSelect ==
    /\ trim.pc = "deleted"
    /\ trim' = [trim EXCEPT !.pc = "selected", !.rows = RowValues(list_rows)]
    /\ UNCHANGED <<list_rows, list_read>>
    /\ UNCHANGED exceptTrim

\* _reindex_list: DELETE FROM list_store WHERE key = ?
ReindexDelete ==
    /\ trim.pc = "selected"
    /\ list_rows' = <<>>
    /\ trim' = [trim EXCEPT !.pc = "inserting", !.i = 0]
    /\ UNCHANGED list_read
    /\ UNCHANGED exceptTrim

\* _reindex_list: one INSERT of the loop.
ReindexInsert ==
    /\ trim.pc = "inserting"
    /\ trim.i < Len(trim.rows)
    /\ list_rows' = Append(list_rows, ListRow(trim.i, trim.rows[trim.i + 1]))
    /\ trim' = [trim EXCEPT !.i = @ + 1]
    /\ UNCHANGED list_read
    /\ UNCHANGED exceptTrim

\* ltrim returns and releases the lock.
LTrimReturn ==
    /\ trim.pc = "inserting"
    /\ trim.i = Len(trim.rows)
    /\ trim' = TrimIdle
    /\ UNCHANGED <<list_rows, list_read>>
    /\ UNCHANGED exceptTrim

\* The list before the running ltrim and the list it leaves.
PreTrim == IF trim.pc = "idle" THEN list_rows ELSE trim.pre
PostTrim == IF trim.pc = "idle" THEN list_rows ELSE trim.post

\* lrange: one SELECT, whenever the event loop runs the reader.
ReadLRange(s, e) ==
    /\ list_read' = [op |-> "lrange", start |-> s, end |-> e,
                     result |-> SelectRange(list_rows, s, e),
                     pre |-> SelectRange(PreTrim, s, e),
                     post |-> SelectRange(PostTrim, s, e)]
    /\ UNCHANGED <<list_rows, trim>>
    /\ UNCHANGED exceptTrim

\* llen: SELECT COUNT(*)
ReadLLen ==
    /\ list_read' = [op |-> "llen", start |-> 0, end |-> 0,
                     result |-> Len(list_rows),
                     pre |-> Len(PreTrim), post |-> Len(PostTrim)]
    /\ UNCHANGED <<list_rows, trim>>
    /\ UNCHANGED exceptTrim

(***************************************************************************)
(* Part 11 Interaction warnings: Neo4jService.get_cross_interactions and   *)
(*         the InteractionWarning objects _get_graph_enhancement builds    *)
(*         from its rows.                                                  *)
(***************************************************************************)
\* Drug ids in the graph; "k_1" is an id that contains an underscore.
GraphDrugs == {"d1", "d2", "d3", "k_1"}

\* str.split("_")
SplitUnderscore(id) == IF id = "k_1" THEN <<"k", "1">> ELSE <<id>>

\* a < b on the id strings.
IdLess(a, b) ==
    LET rank == [x \in GraphDrugs |->
                    CASE x = "d1" -> 1 [] x = "d2" -> 2 [] x = "d3" -> 3 [] OTHER -> 4]
    IN  rank[a] < rank[b]

\* item_name of a Drug node; no name contains the arrow.
ItemName(id) == <<"name of", id>>

\* DrugInteraction as get_cross_interactions fills it: drug_id is d2.id and
\* item_name the two names joined by the arrow (kept here as the pair).
DrugInteraction(id1, id2) ==
    [drug_id |-> id2, item_name |-> <<ItemName(id1), ItemName(id2)>>]

\* get_cross_interactions: the edges inside drug_ids, each once (d1.id < d2.id).
GetCrossInteractions(edges, drug_ids) ==
    IF Len(drug_ids) < 2 THEN {}
    ELSE {DrugInteraction(p[1], p[2]) :
            p \in {q \in GraphDrugs \X GraphDrugs :
                     /\ {q[1], q[2]} \in edges
                     /\ IdLess(q[1], q[2])
                     /\ \E i, j \in 1..Len(drug_ids) :
                           drug_ids[i] = q[1] /\ drug_ids[j] = q[2]}}

\* The InteractionWarning built from one row.
InteractionWarning(interaction, drug_ids) ==
    LET parts == SplitUnderscore(interaction.drug_id)
    IN  [drug_id_1 |-> IF Len(parts) > 1 THEN parts[1] ELSE drug_ids[1],
         drug_name_1 |-> interaction.item_name[1],
         drug_id_2 |-> IF Len(parts) > 1 THEN parts[2] ELSE drug_ids[2],
         drug_name_2 |-> interaction.item_name[2]]

\* _get_graph_enhancement, step 1: the warnings among the retrieved drugs.
InteractionWarnings(edges, drug_ids) ==
    IF Len(drug_ids) >= 2
    THEN {InteractionWarning(x, drug_ids) : x \in GetCrossInteractions(edges, drug_ids)}
    ELSE {}

GraphInit ==
    /\ interacts = {}
    /\ graph_args = <<>>
    /\ graph_ret = {}

\* create_interaction: MERGE of an INTERACTS_WITH edge (matched in either
\* direction by the queries, so kept as the set of its ends).
AddInteraction(a, b) ==
    /\ {a, b} \notin interacts
    /\ interacts' = interacts \cup {{a, b}}
    /\ UNCHANGED <<graph_args, graph_ret>>
    /\ UNCHANGED exceptGraph

\* Graph enrichment of a result list.
CallGraphEnhancement(drug_ids) ==
    /\ graph_args' = drug_ids
    /\ graph_ret' = InteractionWarnings(interacts, drug_ids)
    /\ UNCHANGED interacts
    /\ UNCHANGED exceptGraph

(***************************************************************************)
(* Part 12 DocumentService.chunk_document, one loop iteration per step.    *)
(*         A document is a sequence of characters: a letter, a full stop   *)
(*         or a blank.  Offsets are 0-based as in the source.              *)
(***************************************************************************)
DocChars == {"x", ".", " "}

\* A slice bound as Python resolves it against a sequence of length n.
SliceBound(x, n) == IF x < 0 THEN (IF n + x < 0 THEN 0 ELSE n + x) ELSE Min2(x, n)

\* content[a:b]
PySlice(content, a, b) ==
    SubSeq(content, SliceBound(a, Len(content)) + 1, SliceBound(b, Len(content)))

\* str.strip() leaves something.
NonBlank(text) == \E i \in 1..Len(text) : text[i] # " "

Max2(a, b) == IF a > b THEN a ELSE b

\* The end of the chunk starting at start: start + chunk_size, moved back to
\* just after the last sentence end in the second half of the chunk when the
\* chunk does not reach the end of the document.
ChunkEnd(content, start, chunk_size) ==
    LET end == start + chunk_size
        stop == Max2(start + (chunk_size \div 2), 0)
        cuts == {i \in (stop + 1)..end : content[i + 1] = "."}
    IN  IF end < Len(content) /\ cuts # {}
        THEN (CHOOSE i \in cuts : \A j \in cuts : j <= i) + 1
        ELSE end

NoChunking == [content |-> <<>>, chunk_size |-> 0, overlap |-> 0]

ChunkInit ==
    /\ chunk_args = NoChunking
    /\ chunk_pc = "idle"
    /\ chunk_start = 0
    /\ chunk_prev = 0
    /\ chunk_iter = 0
    /\ chunks = <<>>

\* chunk_document(document, chunk_size, overlap) is entered.
ChunkDocument(content, chunk_size, overlap) ==
    /\ chunk_pc # "loop"
    /\ chunk_args' = [content |-> content, chunk_size |-> chunk_size, overlap |-> overlap]
    /\ chunk_pc' = "loop"
    /\ chunk_start' = 0
    /\ chunk_prev' = 0
    /\ chunk_iter' = 0
    /\ chunks' = <<>>
    /\ UNCHANGED exceptChunk

\* One iteration of "while start < len(content)".
ChunkLoop ==
    LET end == ChunkEnd(chunk_args.content, chunk_start, chunk_args.chunk_size)
        chunk_text == PySlice(chunk_args.content, chunk_start, end)
    IN  /\ chunk_pc = "loop"
        /\ chunk_start < Len(chunk_args.content)
        /\ chunk_iter < MaxIter
        /\ chunks' = IF NonBlank(chunk_text)
                     THEN Append(chunks, [start_char |-> chunk_start, end_char |-> end])
                     ELSE chunks
        /\ chunk_prev' = chunk_start
        /\ chunk_start' = end - chunk_args.overlap
        /\ chunk_iter' = chunk_iter + 1
        /\ UNCHANGED <<chunk_args, chunk_pc>>
        /\ UNCHANGED exceptChunk

\* The loop condition fails and the chunks are returned.
ChunkReturn ==
    /\ chunk_pc = "loop"
    /\ chunk_start >= Len(chunk_args.content)
    /\ chunk_pc' = "returned"
    /\ UNCHANGED <<chunk_args, chunk_start, chunk_prev, chunk_iter, chunks>>
    /\ UNCHANGED exceptChunk
\* ========================================================= specifications
vars ==
    <<memVars, bm25Vars, lockVars, searchVars, rerankVars, chatVars, fusionVars,
      denseVars, tokenizerVars, generateVars, syncVars, trimVars, graphVars, chunkVars>>

Init ==
    MemInit /\ Bm25Init /\ LockInit /\ SearchInit /\ ChatInit /\ FusionInit /\ DenseInit
    /\ TokenizerInit
    /\ GenerateInit
    /\ SyncInit
    /\ TrimInit
    /\ GraphInit
    /\ ChunkInit

\* Session history appends and reads, with the clock standing still.
NextRing ==
    \/ \E s \in Sessions : AddToHistory(s)
    \/ \E s \in Sessions, limit \in 0..(max_history + 1) : ReadHistory(s, limit)

SpecRing == Init /\ [][NextRing]_vars

\* Session history under a running clock.
NextHistory ==
    \/ \E s \in Sessions : AddToHistory(s)
    \/ \E s \in Sessions, limit \in 0..(max_history + 1) : ReadHistory(s, limit)
    \/ \E s \in Sessions : ClearHistory(s)
    \/ Tick

SpecHistory == Init /\ [][NextHistory]_vars

\* Response cache under a running clock.
NextCache ==
    \/ \E h \in Queries : CacheResponse(h)
    \/ \E h \in Queries : GetCachedResponse(h)
    \/ Tick

SpecCache == Init /\ [][NextCache]_vars

\* Every call of the client interface, issued to both backends.
NextBackend ==
    \/ RawGet
    \/ \E v \in RawValues, ttl \in {0, cache_ttl} : RawSet(v, ttl)
    \/ \E k \in RawKeys : RawDelete(k)
    \/ \E k \in RawKeys : RawExists(k)
    \/ \E v \in RawItems : RawRPush(v)
    \/ \E v \in RawItems : RawLPush(v)
    \/ \E s \in RawStarts, e \in RawEnds : RawLRange(s, e)
    \/ RawLLen
    \/ \E s \in RawStarts, e \in RawEnds : RawLTrim(s, e)
    \/ \E k \in RawKeys : RawExpire(k)
    \/ \E k \in RawKeys : RawTtl(k)
    \/ RawIncr
    \/ Tick

SpecBackend == Init /\ [][NextBackend]_vars

\* BM25 index: concurrent initialize / search / refresh over a changing table.
NextBm25 ==
    \/ \E S \in Tables : DbWrite(S)
    \/ \E t \in Tasks : InitializeWarm(t)
    \/ \E t \in Tasks : InitializeStart(t)
    \/ \E t \in Tasks : SearchWarm(t)
    \/ \E t \in Tasks : SearchStart(t)
    \/ \E t \in Tasks : RefreshStart(t)
    \/ \E t \in Tasks : DbExecute(t)
    \/ \E t \in Tasks : DbRaises(t)
    \/ \E t \in Tasks : Resume(t)

SpecBm25 == Init /\ [][NextBm25]_vars

\* DuckDB client: concurrent method calls, statement by statement.
NextLock ==
    \/ \E t \in Tasks, m \in Methods : Call(t, m)
    \/ \E t \in Tasks : Acquire(t)
    \/ \E t \in Tasks : Submit(t)
    \/ \E t \in Tasks : Complete(t)
    \/ \E t \in Tasks : Return(t)

SpecLock == Init /\ [][NextLock]_vars

\* Every answer the rerank API can give for up to three candidates.
AllOrders ==
    {<<>>} \cup UNION {RerankOrders(n, k) : n \in 1..Cardinality(SearchDrugs), k \in TopKs}

Configs ==
    [enable_milvus : BOOLEAN, milvus_up : BOOLEAN, use_reranking : BOOLEAN,
     reranker_enabled : BOOLEAN]

\* Search orchestration over every configuration and index content.
NextSearch ==
    \/ \E cfg \in Configs, k \in TopKs, dense \in DenseCases, sparse \in SparseCases,
          given \in BOOLEAN : BeginSearch(cfg, k, dense, sparse, given)
    \/ \E ok \in BOOLEAN : EmbedQuery(ok)
    \/ \E load_ok \in BOOLEAN : EncodeSparse(load_ok)
    \/ \E refused \in BOOLEAN : MilvusHybridSearch(refused)
    \/ \E ok \in BOOLEAN : ExceptFallback(ok)
    \/ PgvectorDense
    \/ \E fails \in BOOLEAN, order \in AllOrders : FinishSearch(order, fails)
    \/ EndSearch

SpecSearch == Init /\ [][NextSearch]_vars


\* Candidate lists of up to three documents, as the retrieval paths build them.
RerankDocs ==
    {PgvectorSearch(d, 3) : d \in DenseCases} \cup
    {HybridSearch(d, s, 3) : d \in DenseCases, s \in SparseCases}

RerankAnswers ==
    {<<>>} \cup UNION {RerankOrders(n, k) : n \in 1..3, k \in 1..3}

\* The reranker on its own, over every argument and every fate of the API.
NextRerank ==
    \E enabled \in BOOLEAN, docs \in RerankDocs, top_n \in 0..2,
       order \in RerankAnswers, fails \in BOOLEAN :
        CallRerank(enabled, docs, top_n, order, fails)

SpecRerank == Init /\ [][NextRerank]_vars

\* Health of the collaborators of one request.
Envs ==
    {e \in [embed_ok : BOOLEAN, reranker_enabled : BOOLEAN, rerank_fails : BOOLEAN,
             enable_neo4j : BOOLEAN, graph_fails : BOOLEAN, llm_fails : BOOLEAN,
             has_disease : BOOLEAN] :
        /\ e.rerank_fails => e.reranker_enabled
        /\ e.graph_fails => e.enable_neo4j}

\* What the retrieval stage hands to the tail of search().
ChatCandidates == {PgvectorSearch(d, 3) : d \in DenseCases}

\* Every run of the pipeline: health, candidates, top_k, the API's answer.
SagInputs ==
    {x \in [env : Envs, candidates : ChatCandidates, top_k : TopKs, order : AllOrders] :
        RerankFate(TRUE, x.env.reranker_enabled, x.candidates, x.top_k, x.order,
                   x.env.rerank_fails)}

RagRuns == {RagRun(in.env, in.candidates, in.top_k, in.order) : in \in SagInputs}

\* The runs of a healthy pipeline that finds one drug, and of a failed embedder.
RagRunsPlain ==
    {r \in RagRuns : r.failed = {} /\ r.found = 1 /\
                     (r.raised \/ (r.ai_response = "answer" /\ r.sources = <<"d1">>))}

\* The chat endpoint with memory on, over sessions, messages and the clock.
NextChat ==
    \/ \E s \in Sessions, q \in Queries, memory_up \in BOOLEAN, rag \in RagRunsPlain :
          Chat(s, q, TRUE, memory_up, rag)
    \/ Tick

SpecChat == Init /\ [][NextChat]_vars

\* One session's requests under every failure of the collaborators.
NextChatFailures ==
    \E q \in Queries, use_memory \in BOOLEAN, memory_up \in BOOLEAN, rag \in RagRuns :
        Chat("s1", q, use_memory, memory_up, rag)

SpecChatFailures == Init /\ [][NextChatFailures]_vars

\* Candidate lists for fusion, with ties, one-sided and two-sided candidates.
FusionDense ==
    {<<>>, <<Hit("d2", 6000)>>, <<Hit("d3", 5000)>>,
     <<Hit("d1", 8000), Hit("d2", 8000)>>, <<Hit("d1", 9000), Hit("d2", 6000)>>,
     <<Hit("d1", 3000), Hit("d3", 3000)>>}
FusionSparse ==
    {<<>>, <<Hit("d2", 30)>>, <<Hit("d2", 12)>>, <<Hit("d3", 15), Hit("d1", 3)>>,
     <<Hit("d3", 45)>>, <<Hit("d1", 30), Hit("d2", 30)>>}

\* Every order in which a set of ids can be iterated.
Iterations(S) ==
    {p \in [1..Cardinality(S) -> S] : \A i, j \in 1..Cardinality(S) : i # j => p[i] # p[j]}

FusionInputs ==
    {in \in [dense : FusionDense, sparse : FusionSparse, top_k : 1..3,
             iteration : UNION {Iterations(S) : S \in SUBSET SearchDrugs}] :
        in.iteration \in Iterations(Ids(in.dense) \cup Ids(in.sparse))}

\* Both fusions over every pair of candidate lists.
NextFusion ==
    \E in \in FusionInputs : CallFusion(in.dense, in.sparse, in.top_k, in.iteration)

SpecFusion == Init /\ [][NextFusion]_vars

\* Cosine distances of stored vectors to the query: same direction, near,
\* orthogonal, beyond orthogonal, opposite.
Distances == {0, 2000, 10000, 12000, 20000}

\* Vectors are stored and dropped, and the index is searched.
NextDense ==
    \/ \E d \in SearchDrugs, dist \in Distances \cup {-1} : StoreVector(d, dist)
    \/ \E k \in TopKs, order \in UNION {Iterations(S) : S \in SUBSET SearchDrugs} :
          SearchSimilar(k, order)

SpecDense == Init /\ [][NextDense]_vars

\* Texts of at most MaxText characters.
Texts == UNION {[1..n -> Alphabet] : n \in 0..MaxText}

NextTokenizer ==
    \E text \in Texts, expand_synonyms \in BOOLEAN : CallTokenize(text, expand_synonyms)

SpecTokenizer == Init /\ [][NextTokenizer]_vars

\* search_and_generate on its own, under every state of its collaborators.
NextGenerate == \E in \in SagInputs : CallSearchAndGenerate(in)

SpecGenerate == Init /\ [][NextGenerate]_vars

\* Every call of sync_drugs: what the catalog returns, which items fail
\* preprocessing, the options and the step that fails.
SyncInputs ==
    [fetched : SUBSET Catalog, unclean : SUBSET {"d3"}, build_vectors : BOOLEAN,
     enable_qdrant : BOOLEAN,
     fail_at : {"none"} \cup {SyncSteps[i] : i \in 1..Len(SyncSteps)}]

NextSync == \E in \in SyncInputs : SyncDrugs(in)

SpecSync == Init /\ [][NextSync]_vars

\* One key's list is filled, trimmed and read; the reader runs at any point
\* of the trim.
NextTrim ==
    \/ \E v \in ListValues : ListRPush(v)
    \/ \E s \in (0 - MaxLen)..1, e \in {-1, 0} : LTrimDelete(s, e)
    \/ ReindexSelect
    \/ ReindexDelete
    \/ ReindexInsert
    \/ LTrimReturn
    \/ \E s \in {0, 1}, e \in {-1, 0} : ReadLRange(s, e)
    \/ ReadLLen

SpecTrim == Init /\ [][NextTrim]_vars

\* One session whose history already holds turns when the requests arrive.
NextChatTurns ==
    \/ AddToHistory("s1")
    \/ \E q \in Queries, rag \in RagRunsPlain : Chat("s1", q, TRUE, TRUE, rag)
    \/ Tick

SpecChatTurns == Init /\ [][NextChatTurns]_vars

\* Result lists of up to three distinct drugs.
ResultLists == UNION {Iterations(S) : S \in {T \in SUBSET GraphDrugs : Cardinality(T) <= 3}}

NextGraph ==
    \/ \E a \in GraphDrugs, b \in GraphDrugs : AddInteraction(a, b)
    \/ \E drug_ids \in ResultLists : CallGraphEnhancement(drug_ids)

SpecGraph == Init /\ [][NextGraph]_vars

\* Documents of at most MaxDoc characters.
Contents == UNION {[1..n -> DocChars] : n \in 0..MaxDoc}

\* POST /index with every chunk_size and overlap up to MaxChunk.
NextChunk ==
    \/ \E content \in Contents, chunk_size \in 1..MaxChunk, overlap \in 0..MaxChunk :
          ChunkDocument(content, chunk_size, overlap)
    \/ ChunkLoop
    \/ ChunkReturn

SpecChunk == Init /\ [][NextChunk]_vars
\* ================================================================= claims
Store(b) == IF b = "redis" THEN redis ELSE duck

\* The turns a session's ring should hold after n appends: the last
\* max_history of 1..n, oldest first.
RecentTurns(n) == [i \in 1..max_history |-> n - max_history + i]

\* C1: on either backend, once more than max_history add_to_history calls
\* have completed for a session, its history list holds exactly the
\* max_history most recently appended turns, in append order.
C1_HistoryRing ==
    \A s \in Sessions : \A b \in Backends :
        nappend[s] > max_history =>
            ClientLRange(b, Store(b), HistoryKey(s), 0, -1) = RecentTurns(nappend[s])

\* C6: on either backend, right after add_to_history returns the history key
\* has history_ttl left, and a history with no append for history_ttl is no
\* longer returned by get_history.
C6_HistoryTtlRefreshed ==
    \A b \in Backends :
        /\ (lastOp.op = "add_to_history" /\ lastOp.at = now) =>
               ClientTtl(b, Store(b), lastOp.key, now) = history_ttl
        /\ \A s \in Sessions :
               (nappend[s] > 0 /\ now >= appended_at[s] + history_ttl) =>
                   GetHistory(b, Store(b), s, 0) = <<>>

\* C7: get_cached_response never returns an entry whose TTL has run out at
\* the time of the call, on either backend (the result's int is the expiry
\* of the row that was read).
C7_NoExpiredHit ==
    lastOp.op = "get_cached_response" =>
        /\ (rres.val # NoVal => rres.int > lastOp.at)
        /\ (dres.val # NoVal => dres.int > lastOp.at)

\* C7 witness: a lookup found an expired row still sitting in kv_store and
\* answered with a miss.
C7_ExpiredUnsweptMiss ==
    /\ lastOp.op = "get_cached_response"
    /\ lastOp.unswept
    /\ dres.val = NoVal
    /\ rres.val = NoVal

\* C5: the DuckDB backend and the Redis backend are observationally
\* equivalent: after any sequence of client calls, the call made last
\* returned the same result on both.
C5_BackendsAgree == rres = dres


\* A task is inside initialize(): its corpus query is out or just back.
InInit(t) == tpc[t] \in {"executing", "fetched"}

\* C2: concurrent first use of the BM25 index is serialized by the init mutex:
\* at most one caller loads the corpus and builds the index at any time, and
\* the index is published once.
C2_BuildOnce ==
    /\ \A t, u \in Tasks : (InInit(t) /\ InInit(u)) => t = u
    /\ publishes <= 1

\* C3: refresh_index replaces the index atomically: when a refresh of an
\* initialized index completes, every search answered while it ran was
\* answered from the snapshot before it or the snapshot after it.
C3_RefreshAtomic ==
    [][\A t \in Tasks :
          (/\ kind[t] = "refresh"
           /\ tpc[t] = "fetched"
           /\ tpc'[t] = "idle"
           /\ refreshing[t].pre.documents # {})
          => refreshing[t].during \subseteq {refreshing[t].pre, Snapshot(cache')}]_vars

\* C4: once a refresh has completed and no call is in flight, the published
\* documents are the rows of the most recent corpus read (none when it was
\* empty), whatever earlier calls finished after it.
C4_LatestCorpus ==
    (refresh_done /\ \A t \in Tasks : tpc[t] = "idle")
        => cache.documents = Indexed(last_read)

\* C8: every statement that modifies kv_store or list_store executes while
\* its caller holds the client's lock, so no two mutations are in flight at
\* the same time.
C8_MutationsUnderLock ==
    /\ \A t \in Tasks : (running[t] /\ Current(t).mutates) => lock = t
    /\ \A t, u \in Tasks :
          (running[t] /\ Current(t).mutates /\ running[u] /\ Current(u).mutates) => t = u

\* C9: without a usable Milvus (not enabled, or not reachable) the candidates
\* handed to reranking or truncation come from the dense search fused with
\* BM25, and each carries a hybrid_score.
C9_DenseThenBm25Fusion ==
    (spc = "retrieved" /\ (~scfg.enable_milvus \/ ~scfg.milvus_up))
        => /\ Len(results) >= Min2(Len(dense_hits), 1)
           /\ \A i \in 1..Len(results) : "hybrid_score" \in results[i].keys

\* C10: with the sparse encoder's load failed, a search that Milvus serves
\* still returns the dense hits: as many as top_k allows, none of them from
\* anywhere else.
C10_DenseSurvivesSparseFailure ==
    (spc = "done" /\ splade.load_failed /\ scfg.enable_milvus /\ scfg.milvus_up
        /\ search_path = <<"milvus">>)
        => /\ Len(results) = Min2(top_k, Len(dense_hits))
           /\ Ids(results) \subseteq Ids(dense_hits)

\* C11: whenever the reranker is disabled, the document list is empty, or the
\* external rerank call fails, rerank returns the input documents in their
\* original order truncated to top_n (settings.RERANK_TOP_N when none is given).
C11_RerankFallbackTruncates ==
    (rerank_args.called /\
     (~rerank_args.enabled \/ rerank_args.documents = <<>> \/ rerank_args.fails))
        => rerank_ret = Take(rerank_args.documents, RerankTopN(rerank_args.top_n))

\* C12: when the reranker, the graph store or the memory store fails (and
\* nothing else does), search_and_generate still returns a response with the
\* retrieved results, and POST /chat answers 200 carrying them.
C12_FailuresNeverAbort ==
    (nchat > 0 /\ rag_resp.embed_ok) =>
        /\ ~rag_resp.raised
        /\ Len(rag_resp.sources) = rag_resp.found
        /\ \A b \in Backends :
              /\ chat_resp[b].status = 200
              /\ ~chat_resp[b].from_cache => chat_resp[b].sources = rag_resp.sources

\* The reranker, the graph store and the memory store all failed during a
\* request that found drugs, and the response carries them.
C12_AllThreeFailed ==
    /\ chat_req.use_memory /\ ~chat_req.memory_up
    /\ rag_resp.failed = {"reranker", "graph"}
    /\ \A b \in Backends :
          chat_resp[b].status = 200 /\ Len(chat_resp[b].sources) = 2

\* The previous request was the first of a fresh session, with memory working.
FirstTurn(b) ==
    /\ chat_req.use_memory /\ chat_req.memory_up /\ chat_req.fresh[b]
    /\ chat_resp[b].status = 200

\* C17: in a fresh session the first POST /chat returns from_cache:false with
\* conversation_turn:1, and an identical call following it within the cache
\* TTL returns from_cache:true with conversation_turn:2.
C17_RepeatIsCachedTurn ==
    [][(nchat' = nchat + 1 /\ chat_req'.use_memory /\ chat_req'.memory_up) =>
          \A b \in Backends :
              /\ (chat_req'.fresh[b] /\ ~rag_resp'.raised) =>
                    /\ chat_resp'[b].status = 200
                    /\ ~chat_resp'[b].from_cache
                    /\ chat_resp'[b].conversation_turn = 1
              /\ (/\ FirstTurn(b)
                  /\ chat_req'.session_id = chat_req.session_id
                  /\ chat_req'.message = chat_req.message
                  /\ now' - chat_req.at < cache_ttl) =>
                    /\ chat_resp'[b].status = 200
                    /\ chat_resp'[b].from_cache
                    /\ chat_resp'[b].conversation_turn = 2]_vars

\* The second of two identical calls was answered from the cache as turn 2.
C17_SecondCallCached ==
    /\ nchat = 2
    /\ \A b \in Backends :
          chat_resp[b].from_cache /\ chat_resp[b].conversation_turn = 2

\* C13: wherever a search or an is_initialized check can run, model, documents
\* and corpus belong to one published snapshot (the documents are those of
\* the corpus and the model was built from that corpus), or the cache is in
\* its pre-init state; is_initialized is true only when all three are set.
C13_NoTornTriple ==
    /\ cache.bm25.corpus = cache.corpus
    /\ cache.documents = cache.corpus
    /\ \/ cache = CacheCleared
       \/ \E rs \in Tables : Indexed(rs) # {} /\ cache = Publish(CacheCleared, rs)
    /\ IsInitialized(cache) =>
          (cache.bm25.built /\ cache.documents # {} /\ cache.corpus # {})

\* A snapshot is published while another caller is about to publish a
\* different one.
C13_PublishedWhileLoading ==
    /\ IsInitialized(cache)
    /\ \E t \in Tasks : tpc[t] = "fetched" /\ Indexed(corpus_rows[t]) # {}
                         /\ Indexed(corpus_rows[t]) # cache.documents

\* The code the last ttl call returned on backend b.
TtlCode(b) == IF b = "redis" THEN rres.int ELSE dres.int

\* The key carries an expiry on backend b.
HasTtl(b, k) == IF b = "redis" THEN redis.has_exp[k] ELSE duck.kv_store[k].has_exp

\* C14: on both backends ttl(k) returns -2 exactly when k is not there (never
\* set, or deleted), -1 exactly when k is there without a TTL, and the
\* remaining seconds, not negative, otherwise.
C14_TtlCodes ==
    lastOp.op = "ttl" =>
        \A b \in Backends :
            LET there == ClientExists(b, Store(b), lastOp.key, now)
            IN  /\ (TtlCode(b) = -2) <=> ~there
                /\ (TtlCode(b) = -1) <=> (there /\ ~HasTtl(b, lastOp.key))
                /\ TtlCode(b) >= -2

\* C15: whatever the list holds and for every start and end the interface
\* takes, DuckDB ltrim(key, s, e) leaves exactly the items at positions s..e
\* (negative positions counting from the tail), in their order, with idx
\* values 0..len-1.
C15_LTrimKeepsRange ==
    \A s \in (0 - MaxLen)..MaxLen, e \in (0 - MaxLen)..MaxLen :
        LET before == duck.list_store[RawListKey]
            after == DuckLTrim(duck, RawListKey, s, e).list_store[RawListKey]
        IN  /\ RowValues(after) = RedisSlice(RowValues(before), s, e)
            /\ \A i \in 1..Len(after) : after[i].idx = i - 1

\* The last n items of a list.
LastN(l, n) == SubSeq(l, Len(l) - Min2(n, Len(l)) + 1, Len(l))

\* C16: on either backend get_history(session, limit), and get_recent_context
\* which reads through it, gives at most limit turns: the most recent ones,
\* oldest first.
C16_HistoryLimit ==
    \A b \in Backends, s \in Sessions, limit \in 1..(max_history + 1) :
        LET all == GetHistory(b, Store(b), s, 0)
            got == GetHistory(b, Store(b), s, limit)
        IN  Len(got) <= limit /\ got = LastN(all, limit)

\* Position of an id in the fusion input: the dense candidates in their
\* order, then the sparse candidates that are not dense ones, in theirs.
InputRank(d) ==
    LET dense == fusion_args.dense
        sparse == fusion_args.sparse
        only == SelectSeq(sparse, LAMBDA h : h.drug_id \notin Ids(dense))
        all == dense \o only
    IN  CHOOSE i \in 1..Len(all) : all[i].drug_id = d

\* The output is sorted by hybrid_score, best first, ties in input order, and
\* holds top_k records (or all there are).
FusionOrdered(out) ==
    /\ Len(out) = Min2(fusion_args.top_k,
                       Cardinality(Ids(fusion_args.dense) \cup Ids(fusion_args.sparse)))
    /\ \A i, j \in 1..Len(out) :
          i < j => /\ out[i].hybrid_score >= out[j].hybrid_score
                   /\ out[i].hybrid_score = out[j].hybrid_score
                        => InputRank(out[i].drug_id) < InputRank(out[j].drug_id)

\* C18: the output of fusion (dense + BM25, and dense + sparse in Milvus) is
\* sorted by hybrid_score descending, records of equal hybrid_score keep
\* their relative input order, and the list is truncated to top_k.
C18_FusionOrderStable ==
    fusion_args.called =>
        FusionOrdered(fusion_ret.bm25) /\ FusionOrdered(fusion_ret.milvus)

\* Every record of the output is a candidate, once, with the scores of its
\* inputs (0 for the side it is missing from, the sparse score normalised by
\* max) and w_d * dense_score + w_s * sparse_score as hybrid_score; no
\* candidate is left out unless top_k cuts the list.
FusionScored(out, max) ==
    LET union == Ids(fusion_args.dense) \cup Ids(fusion_args.sparse)
    IN  /\ Len(out) = Min2(fusion_args.top_k, Cardinality(union))
        /\ Ids(out) \subseteq union
        /\ Cardinality(Ids(out)) = Len(out)
        /\ \A i \in 1..Len(out) :
              LET d == out[i].drug_id
              IN  /\ out[i].dense_score =
                        IF d \in Ids(fusion_args.dense)
                        THEN ScoreOf(fusion_args.dense, d) ELSE 0
                  /\ out[i].sparse_score =
                        IF d \in Ids(fusion_args.sparse)
                        THEN Min2((ScoreOf(fusion_args.sparse, d) * 10000) \div max, 10000)
                        ELSE 0
                  /\ out[i].hybrid_score * 100 <=
                        dense_weight * out[i].dense_score + sparse_weight * out[i].sparse_score
                  /\ out[i].hybrid_score * 100 + 100 >
                        dense_weight * out[i].dense_score + sparse_weight * out[i].sparse_score

C20_SimilarityInUnitRange ==
    \A i \in 1..Len(similar_ret) :
        similar_ret[i].score >= 0 /\ similar_ret[i].score <= 10000

\* C21: no token that tokenize emits (original tokens, n-grams, synonym
\* expansions) is a stopword, for any text and either value of expand_synonyms.
C21_NoStopwordEmitted ==
    \A i \in 1..Len(tokenize_ret) : tokenize_ret[i] \notin stopwords

\* C22: when the answer LLM is called and fails, search_and_generate does not
\* raise: it returns the retrieved drug results and disease results with the
\* fixed fallback message as ai_response.
C22_LlmFailureFallsBack ==
    (/\ sag_args.called
     /\ sag_args.env.embed_ok
     /\ sag_args.env.llm_fails
     /\ (sag_args.candidates # <<>> \/ sag_args.env.has_disease))
    => /\ ~sag_ret.raised
       /\ sag_ret.ai_response = "fallback"
       /\ Len(sag_ret.results) = Min2(sag_args.top_k, Len(sag_args.candidates))
       /\ Ids(sag_ret.results) \subseteq Ids(sag_args.candidates)
       /\ sag_ret.disease_results # <<>> <=> sag_args.env.has_disease

C22_LlmFailedWithResults ==
    /\ sag_args.called
    /\ sag_args.env.llm_fails
    /\ sag_ret.results # <<>>
    /\ sag_ret.disease_results # <<>>
    /\ sag_ret.ai_response = "fallback"

C26_EveryDrugHasVector ==
    (sync_args.called /\ sync_args.build_vectors /\ ~sync_ret.raised)
    => drug_rows \subseteq vector_rows

\* C24: every entry of the response cache, and every response served with
\* from_cache:true, is an answer the LLM generated; the LLM-failure fallback
\* and the nothing-found apology are never cached.
C24_OnlyAnswersCached ==
    \A b \in Backends :
        /\ \A q \in Queries :
              LET cached == GetCachedResponseResult(b, IF b = "redis" THEN redis ELSE duck,
                                                    q, now)
              IN  cached # NoVal => cached.response = "answer"
        /\ chat_resp[b].from_cache => chat_resp[b].message = "answer"

\* C25: on the DuckDB backend an lrange or llen of a key returns what it would
\* return on the complete list before a concurrent ltrim of that key or on the
\* complete list after it, never an emptied or partly re-inserted list.
C25_ReadSeesWholeList ==
    list_read.op # "none" => list_read.result \in {list_read.pre, list_read.post}

\* C27: when the corpus read of a refresh_index fails, the index that was
\* published before the refresh is still in the cache and serves searches.
C27_FailedRefreshKeepsIndex ==
    [][\A t \in Tasks :
          (/\ tpc[t] = "executing" /\ kind[t] = "refresh"
           /\ tpc'[t] = "idle"
           /\ refreshing[t].pre.documents # {})
          => (IsInitialized(cache') /\ Snapshot(cache') = refreshing[t].pre)]_vars

\* C28: the conversation_turn of a POST /chat response equals the number of
\* turns the session's history holds right after the request, and is at most
\* MAX_HISTORY, whether the response came from the cache or from the pipeline.
C28_TurnIsHistoryLength ==
    \A b \in Backends :
        (/\ lastOp.op = "chat"
         /\ chat_req.use_memory /\ chat_req.memory_up
         /\ chat_resp[b].status = 200)
        => /\ chat_resp[b].conversation_turn =
                  Len(GetHistory(b, IF b = "redis" THEN redis ELSE duck,
                                 chat_req.session_id, 0))
           /\ chat_resp[b].conversation_turn <= max_history

\* C29: every InteractionWarning names the pair that interacts: drug_id_1 and
\* drug_id_2 are distinct ids of the result list, they carry the names in
\* drug_name_1 and drug_name_2, and the graph has an edge between them.
C29_WarningNamesThePair ==
    \A w \in graph_ret :
        /\ w.drug_id_1 # w.drug_id_2
        /\ \E i, j \in 1..Len(graph_args) :
              graph_args[i] = w.drug_id_1 /\ graph_args[j] = w.drug_id_2
        /\ w.drug_name_1 = ItemName(w.drug_id_1)
        /\ w.drug_name_2 = ItemName(w.drug_id_2)
        /\ {w.drug_id_1, w.drug_id_2} \in interacts

\* C30: in chunk_document the start offset grows on every iteration of the
\* loop, for every document and every chunk_size and overlap the /index
\* endpoint accepts, so that the loop ends with a finite list of chunks.
C30_StartStrictlyIncreases ==
    chunk_iter > 0 => chunk_start > chunk_prev
====
